---- MODULE Spec2Model ----
(***************************************************************************)
(* Model of the IREE docker-integration compilation pipeline:              *)
(*   config_validator.py  (validate_config, normalize_config)              *)
(*   file_handler.py      (SecureFileHandler)                              *)
(*   docker_manager.py    (DockerManager.run_compilation)                  *)
(*   cli.py               (compile)                                        *)
(*                                                                         *)
(* Python strings are modelled as sequences of one-character strings, so   *)
(* that startswith / endswith / basename / sanitising are computed and not *)
(* assumed.  An optional value is a record: Missing (key absent), None     *)
(* (Python None) or Some(v).                                               *)
(***************************************************************************)
EXTENDS Integers, Sequences, FiniteSets, TLC

(***************************************************************************)
(* Bounds of the model.                                                    *)
(***************************************************************************)
\* longest target_features list drawn for a request
MaxFeatures == 2
\* most calls of prepare_input_file made on one SecureFileHandler
MaxStagings == 3

(***************************************************************************)
(* Optional values.                                                        *)
(***************************************************************************)
Missing == [k |-> "missing"]
None == [k |-> "none"]
Some(v) == [k |-> "some", v |-> v]
IsSome(o) == o.k = "some"

(***************************************************************************)
(* Strings.                                                                *)
(***************************************************************************)
Digits == {"0", "1", "2", "3", "4", "5", "6", "7", "8", "9"}

StartsWith(s, p) == Len(s) >= Len(p) /\ SubSeq(s, 1, Len(p)) = p
EndsWith(s, p) == Len(s) >= Len(p) /\ SubSeq(s, Len(s) - Len(p) + 1, Len(s)) = p

\* str.isdigit(): non-empty and every character a digit
IsDigitStr(s) == Len(s) > 0 /\ \A i \in 1..Len(s) : s[i] \in Digits

\* s.rfind(c) + 1 : 0 when c does not occur
RFind1(s, c) ==
  IF \E i \in 1..Len(s) : s[i] = c
  THEN CHOOSE i \in 1..Len(s) : s[i] = c /\ \A j \in (i+1)..Len(s) : s[j] # c
  ELSE 0

\* os.path.basename(s)
Basename(s) == SubSeq(s, RFind1(s, "/") + 1, Len(s))

\* x in list
InSeq(x, s) == \E i \in 1..Len(s) : s[i] = x

SeqToSet(s) == {s[i] : i \in 1..Len(s)}

S_input == <<"/", "i", "n", "p", "u", "t", "/">>
S_output == <<"/", "o", "u", "t", "p", "u", "t", "/">>
Ext_mlir == <<".", "m", "l", "i", "r">>
Ext_vmfb == <<".", "v", "m", "f", "b">>
Ext_so == <<".", "s", "o">>
Ext_dylib == <<".", "d", "y", "l", "i", "b">>
Ext_txt == <<".", "t", "x", "t">>
S_sm_ == <<"s", "m", "_">>
S_model == <<"m", "o", "d", "e", "l">>

\* enum values (CompilationTarget, OptimizationLevel, OutputFormat)
CompilationTarget == {"cuda", "cpu", "vulkan", "metal"}
OptimizationLevel == {"O0", "O1", "O2", "O3"}
OutputFormat == {"vmfb", "so", "dylib"}

\* f".{output_format.value}"
FormatExt(f) ==
  CASE f = "vmfb" -> Ext_vmfb
    [] f = "so" -> Ext_so
    [] f = "dylib" -> Ext_dylib
    [] OTHER -> <<".">>

(***************************************************************************)
(* float(s) on a decimal literal: digits, optionally "." and digits.       *)
(* Returns ok = FALSE where Python raises ValueError.  The value is kept   *)
(* as num / 10^frac.                                                       *)
(***************************************************************************)
RECURSIVE DigitsValue(_)
DigitsValue(s) ==
  IF Len(s) = 0 THEN 0
  ELSE 10 * DigitsValue(SubSeq(s, 1, Len(s) - 1))
       + (CHOOSE d \in 0..9 : ToString(d) = s[Len(s)])

RECURSIVE Pow10(_)
Pow10(n) == IF n = 0 THEN 1 ELSE 10 * Pow10(n - 1)

ParseFloat(s) ==
  LET dot == RFind1(s, ".")
      ip == IF dot = 0 THEN s ELSE SubSeq(s, 1, dot - 1)
      fp == IF dot = 0 THEN <<>> ELSE SubSeq(s, dot + 1, Len(s))
      wellFormed == /\ \A i \in 1..Len(ip) : ip[i] \in Digits
                    /\ \A i \in 1..Len(fp) : fp[i] \in Digits
                    /\ Len(ip) + Len(fp) > 0
  IN IF wellFormed
     THEN [ok |-> TRUE, num |-> DigitsValue(ip \o fp), frac |-> Len(fp)]
     ELSE [ok |-> FALSE, num |-> 0, frac |-> 0]

\* float(s) < whole, for a parsed s
FloatLess(p, whole) == p.num < whole * Pow10(p.frac)

(***************************************************************************)
(* Configuration engine: the Pydantic models of config_validator.py.       *)
(* A validation step yields [exc, errs, val]: exc is "none" or the Python  *)
(* exception that escapes, errs the error entries collected, val the       *)
(* validated value.                                                        *)
(***************************************************************************)
StrChars(t) ==
  CASE t = "cuda" -> <<"c", "u", "d", "a">>
    [] t = "cpu" -> <<"c", "p", "u">>
    [] t = "vulkan" -> <<"v", "u", "l", "k", "a", "n">>
    [] t = "metal" -> <<"m", "e", "t", "a", "l">>
    [] t = "vmfb" -> <<"v", "m", "f", "b">>
    [] t = "so" -> <<"s", "o">>
    [] t = "dylib" -> <<"d", "y", "l", "i", "b">>
    [] OTHER -> <<"?">>

F_sm_80 == S_sm_ \o <<"8", "0">>
F_sm_70 == S_sm_ \o <<"7", "0">>
F_avx2 == <<"a", "v", "x", "2">>
F_sse2 == <<"s", "s", "e", "2">>
F_neon == <<"n", "e", "o", "n">>

Ver(a, b) == <<a, ".", b>>

\* CpuConfig.validate_vector_extensions: valid_extensions
valid_extensions ==
  { <<"s", "s", "e">>, F_sse2, <<"s", "s", "e", "3">>, <<"s", "s", "s", "e", "3">>,
    <<"s", "s", "e", "4", ".", "1">>, <<"s", "s", "e", "4", ".", "2">>,
    <<"a", "v", "x">>, F_avx2, <<"a", "v", "x", "5", "1", "2">>, F_neon,
    <<"f", "m", "a">>, <<"f", "1", "6", "c">>, <<"b", "m", "i">>,
    <<"b", "m", "i", "2">> }
valid_spirv_versions == {Ver("1", d) : d \in {"0", "1", "2", "3", "4", "5", "6"}}
valid_vulkan_versions == {Ver("1", d) : d \in {"0", "1", "2", "3"}}
valid_metal_versions == {Ver("2", d) : d \in {"0", "1", "2", "3", "4"}} \cup {Ver("3", "0")}

NoErr(v) == [exc |-> "none", errs |-> <<>>, val |-> v]
Err(tag) == [exc |-> "none", errs |-> <<tag>>, val |-> None]
Raise(e) == [exc |-> e, errs |-> <<>>, val |-> None]

\* the first exception among the steps of a sequence, "none" if there is none
FirstExc(rs) ==
  IF \E i \in 1..Len(rs) : rs[i].exc # "none"
  THEN rs[CHOOSE i \in 1..Len(rs) :
            rs[i].exc # "none" /\ \A j \in 1..(i-1) : rs[j].exc = "none"].exc
  ELSE "none"

RECURSIVE AllErrs(_)
AllErrs(rs) == IF Len(rs) = 0 THEN <<>> ELSE rs[1].errs \o AllErrs(Tail(rs))

\* CudaConfig.compute_capability with validate_compute_capability
CudaComputeCapability(o) ==
  CASE o.k = "missing" -> NoErr(Some(<<>>))
    [] o.k = "none" -> Raise("TypeError")
    [] OTHER ->
       IF \E i \in 1..Len(o.v) :
            ~StartsWith(o.v[i], S_sm_) \/ ~IsDigitStr(SubSeq(o.v[i], 4, Len(o.v[i])))
       THEN Err("target_specific.cuda.compute_capability")
       ELSE NoErr(o)

\* CudaConfig.max_threads_per_block (ge=32, le=1024) with validate_threads_per_block
CudaMaxThreads(o) ==
  CASE o.k = "missing" -> NoErr(256)
    [] o.k = "none" -> Err("target_specific.cuda.max_threads_per_block")
    [] OTHER ->
       IF o.v < 32 \/ o.v > 1024 \/ o.v % 32 # 0
       THEN Err("target_specific.cuda.max_threads_per_block")
       ELSE NoErr(o.v)

CudaConfig(sub) ==
  LET cc == CudaComputeCapability(sub.compute_capability)
      mt == CudaMaxThreads(sub.max_threads_per_block)
  IN [exc |-> FirstExc(<<cc, mt>>), errs |-> cc.errs \o mt.errs,
      val |-> Some([compute_capability |-> cc.val, max_threads_per_block |-> mt.val])]

\* CpuConfig.vector_extensions with validate_vector_extensions
CpuVectorExtensions(o) ==
  CASE o.k = "missing" -> NoErr(Some(<<>>))
    [] o.k = "none" -> Raise("TypeError")
    [] OTHER ->
       IF \E i \in 1..Len(o.v) : o.v[i] \notin valid_extensions
       THEN Err("target_specific.cpu.vector_extensions")
       ELSE NoErr(o)

StrField(o, default, tag) ==
  CASE o.k = "missing" -> NoErr(default)
    [] o.k = "none" -> Err(tag)
    [] OTHER -> NoErr(o.v)

CpuConfig(sub) ==
  LET tc == StrField(sub.target_cpu, <<"g", "e", "n", "e", "r", "i", "c">>,
                     "target_specific.cpu.target_cpu")
      ve == CpuVectorExtensions(sub.vector_extensions)
  IN [exc |-> FirstExc(<<tc, ve>>), errs |-> tc.errs \o ve.errs,
      val |-> Some([target_cpu |-> tc.val, vector_extensions |-> ve.val])]

\* a str field with a whitelist validator (spirv_version, vulkan_version, metal_version)
VersionField(o, default, valid, tag) ==
  CASE o.k = "missing" -> NoErr(default)
    [] o.k = "none" -> Err(tag)
    [] OTHER -> IF o.v \in valid THEN NoErr(o.v) ELSE Err(tag)

VulkanConfig(sub) ==
  LET sv == VersionField(sub.spirv_version, Ver("1", "3"), valid_spirv_versions,
                         "target_specific.vulkan.spirv_version")
      vv == VersionField(sub.vulkan_version, Ver("1", "1"), valid_vulkan_versions,
                         "target_specific.vulkan.vulkan_version")
  IN [exc |-> "none", errs |-> sv.errs \o vv.errs,
      val |-> Some([spirv_version |-> sv.val, vulkan_version |-> vv.val])]

\* Optional[str] without validator: a missing key is None
OptStr(o) == IF o.k = "missing" THEN None ELSE o

MetalConfig(sub) ==
  LET mv == VersionField(sub.metal_version, Ver("2", "4"), valid_metal_versions,
                         "target_specific.metal.metal_version")
  IN [exc |-> "none", errs |-> mv.errs,
      val |-> Some([metal_version |-> mv.val,
                    ios_deployment_target |-> OptStr(sub.ios_deployment_target),
                    macos_deployment_target |-> OptStr(sub.macos_deployment_target)])]


TargetSpecificConfig(o) ==
  CASE o.k = "none" -> NoErr(None)
    [] o.k = "missing" ->
       NoErr(Some([cuda |-> None, cpu |-> None, vulkan |-> None, metal |-> None]))
    [] OTHER ->
       LET cu == IF IsSome(o.v.cuda) THEN CudaConfig(o.v.cuda.v) ELSE NoErr(None)
           cp == IF IsSome(o.v.cpu) THEN CpuConfig(o.v.cpu.v) ELSE NoErr(None)
           vu == IF IsSome(o.v.vulkan) THEN VulkanConfig(o.v.vulkan.v) ELSE NoErr(None)
           me == IF IsSome(o.v.metal) THEN MetalConfig(o.v.metal.v) ELSE NoErr(None)
       IN [exc |-> FirstExc(<<cu, cp, vu, me>>),
           errs |-> AllErrs(<<cu, cp, vu, me>>),
           val |-> Some([cuda |-> cu.val, cpu |-> cp.val,
                         vulkan |-> vu.val, metal |-> me.val])]

\* IreeCompilationConfig.input_file with validate_input_file
FieldInputFile(o) ==
  CASE o.k = "missing" -> Err("input_file")
    [] o.k = "none" -> Err("input_file")
    [] OTHER -> IF ~StartsWith(o.v, S_input) \/ ~EndsWith(o.v, Ext_mlir)
                THEN Err("input_file") ELSE NoErr(o.v)

\* IreeCompilationConfig.output_file with validate_output_file
FieldOutputFile(o) ==
  CASE o.k = "missing" -> NoErr(S_output \o S_model \o Ext_vmfb)
    [] o.k = "none" -> Err("output_file")
    [] OTHER -> IF ~StartsWith(o.v, S_output) THEN Err("output_file") ELSE NoErr(o.v)

\* an enum field
EnumField(o, default, values, tag) ==
  CASE o.k = "missing" -> NoErr(default)
    [] o.k = "none" -> Err(tag)
    [] OTHER -> IF o.v \in values THEN NoErr(o.v) ELSE Err(tag)

\* Optional[List[str]] with default_factory=list and no field validator
FieldTargetFeatures(o) == IF o.k = "missing" THEN NoErr(Some(<<>>)) ELSE NoErr(o)

\* self.target_features or []
OrEmpty(o) == IF IsSome(o) THEN o.v ELSE <<>>

\* A faulty variant of validate_output_format_consistency, kept to show what
\* C11 rules out: the extension is compared for the default format only.
validate_output_format_consistency_vmfb_only(m) ==
  IF m.output_format = "vmfb" /\ Len(m.output_file) > 0
     /\ ~EndsWith(m.output_file, FormatExt(m.output_format))
  THEN <<"output_format_consistency">> ELSE <<>>

\* model_validator validate_output_format_consistency
validate_output_format_consistency(m) ==
  IF Len(m.output_file) > 0 /\ ~EndsWith(m.output_file, FormatExt(m.output_format))
  THEN <<"output_format_consistency">> ELSE <<>>

\* model_validator validate_target_features_consistency
validate_target_features_consistency(m) ==
  IF m.target = "cuda"
     /\ \E i \in 1..Len(OrEmpty(m.target_features)) :
           ~StartsWith(OrEmpty(m.target_features)[i], S_sm_)
  THEN <<"target_features_consistency">> ELSE <<>>

\* the model validators run in definition order; the first that raises ends them
ModelValidators(m) ==
  IF validate_output_format_consistency(m) # <<>>
  THEN validate_output_format_consistency(m)
  ELSE validate_target_features_consistency(m)

\* IreeCompilationConfig built from the config dict: field validation
\* collects the errors of every field; the model validators run only when no
\* field failed.
IreeCompilationConfig(config) ==
  LET fi == FieldInputFile(config.input_file)
      fo == FieldOutputFile(config.output_file)
      ft == EnumField(config.target, "cuda", CompilationTarget, "target")
      fl == EnumField(config.optimization_level, "O3", OptimizationLevel,
                      "optimization_level")
      ff == FieldTargetFeatures(config.target_features)
      fm == EnumField(config.output_format, "vmfb", OutputFormat, "output_format")
      fs == TargetSpecificConfig(config.target_specific)
      all == <<fi, fo, ft, fl, ff, fm, fs>>
      m == [input_file |-> fi.val, output_file |-> fo.val, target |-> ft.val,
            optimization_level |-> fl.val, target_features |-> ff.val,
            output_format |-> fm.val, target_specific |-> fs.val]
  IN IF FirstExc(all) # "none" THEN Raise(FirstExc(all))
     ELSE IF AllErrs(all) # <<>>
          THEN [exc |-> "none", errs |-> AllErrs(all), val |-> None]
          ELSE [exc |-> "none", errs |-> ModelValidators(m), val |-> m]

(***************************************************************************)
(* ConfigValidator: cross-field validation on validated_config.dict().     *)
(* In the dump target_specific is None or a dict that holds all four keys, *)
(* an absent sub-record as None; `target in target_specific` is a key test *)
(* of a dict (TypeError on None).                                          *)
(***************************************************************************)
\* _validate_cuda_cross_fields
validate_cuda_cross_fields(config, cuda_config) ==
  IF cuda_config.k # "some" THEN Raise("AttributeError")
  ELSE LET target_features == OrEmpty(config.target_features)
           compute_caps == OrEmpty(cuda_config.v.compute_capability)
       IN [exc |-> "none",
           errs |-> IF Len(compute_caps) > 0 /\ Len(target_features) > 0
                       /\ \E i \in 1..Len(compute_caps) :
                             ~InSeq(compute_caps[i], target_features)
                    THEN <<"cuda_compute_capability_in_target_features">>
                    ELSE <<>>,
           val |-> None]

\* _validate_vulkan_cross_fields
validate_vulkan_cross_fields(config, vulkan_config) ==
  IF vulkan_config.k # "some" THEN Raise("AttributeError")
  ELSE [exc |-> "none",
        errs |-> IF vulkan_config.v.spirv_version
                      \in {Ver("1", "4"), Ver("1", "5"), Ver("1", "6")}
                    /\ vulkan_config.v.vulkan_version = Ver("1", "0")
                 THEN <<"vulkan_spirv_requires_vulkan_1_1">> ELSE <<>>,
        val |-> None]

\* `t and float(t) < limit` for an Optional[str] deployment target:
\* [exc, hit]; an empty string or None is falsy and is not parsed
DeploymentBelow(t, limit) ==
  IF ~IsSome(t) \/ Len(t.v) = 0 THEN [exc |-> "none", hit |-> FALSE]
  ELSE IF ~ParseFloat(t.v).ok THEN [exc |-> "ValueError", hit |-> FALSE]
       ELSE [exc |-> "none", hit |-> FloatLess(ParseFloat(t.v), limit)]

\* _validate_metal_cross_fields
validate_metal_cross_fields(config, metal_config) ==
  IF metal_config.k # "some" THEN Raise("AttributeError")
  ELSE IF metal_config.v.metal_version # Ver("3", "0") THEN NoErr(None)
  ELSE LET ios == DeploymentBelow(metal_config.v.ios_deployment_target, 15)
           mac == DeploymentBelow(metal_config.v.macos_deployment_target, 12)
       IN IF ios.exc # "none" THEN Raise(ios.exc)
          ELSE IF mac.exc # "none" THEN Raise(mac.exc)
          ELSE [exc |-> "none",
                errs |-> (IF ios.hit THEN <<"metal_3_requires_ios_15">> ELSE <<>>)
                         \o (IF mac.hit THEN <<"metal_3_requires_macos_12">> ELSE <<>>),
                val |-> None]

\* _cross_validate_config
cross_validate_config(config) ==
  IF config.target_specific.k # "some" THEN Raise("TypeError")
  ELSE LET target_specific == config.target_specific.v
       IN CASE config.target = "cuda" ->
                 validate_cuda_cross_fields(config, target_specific.cuda)
            [] config.target = "vulkan" ->
                 validate_vulkan_cross_fields(config, target_specific.vulkan)
            [] config.target = "metal" ->
                 validate_metal_cross_fields(config, target_specific.metal)
            [] OTHER -> NoErr(None)

\* validate_config(config, use_pydantic=True): [exc, ok, errors]
validate_config(config) ==
  LET validated_config == IreeCompilationConfig(config)
      custom == cross_validate_config(validated_config.val)
  IN IF validated_config.exc # "none"
     THEN [exc |-> validated_config.exc, ok |-> FALSE, errors |-> <<>>]
     ELSE IF validated_config.errs # <<>>
          THEN [exc |-> "none", ok |-> FALSE, errors |-> validated_config.errs]
          ELSE IF custom.exc # "none"
               THEN [exc |-> custom.exc, ok |-> FALSE, errors |-> <<>>]
               ELSE [exc |-> "none", ok |-> Len(custom.errs) = 0,
                     errors |-> custom.errs]

(***************************************************************************)
(* validate_config(config, use_pydantic=False): jsonschema.validate, then  *)
(* _custom_validations on the config dict as given (no model defaults: a   *)
(* key is absent, None or a value).                                        *)
(***************************************************************************)
\* dict.get(key, default)
Get(o, default) == IF o.k = "missing" THEN Some(default) ELSE o

\* _validate_cuda_config
validate_cuda_config(config, cuda_config) ==
  IF cuda_config.k # "some" THEN Raise("AttributeError")
  ELSE LET target_features == OrEmpty(config.target_features)
           compute_caps == OrEmpty(cuda_config.v.compute_capability)
           max_threads == Get(cuda_config.v.max_threads_per_block, 256)
       IN IF max_threads.k = "none" THEN Raise("TypeError")
          ELSE [exc |-> "none",
                errs |-> (IF Len(compute_caps) > 0 /\ Len(target_features) > 0
                             /\ \E i \in 1..Len(compute_caps) :
                                   ~InSeq(compute_caps[i], target_features)
                          THEN <<"cuda_compute_capability_in_target_features">>
                          ELSE <<>>)
                         \o (IF max_threads.v % 32 # 0
                             THEN <<"cuda_max_threads_multiple_of_32">> ELSE <<>>),
                val |-> None]

\* _validate_cpu_config
validate_cpu_config(config, cpu_config) ==
  IF cpu_config.k # "some" THEN Raise("AttributeError")
  ELSE LET vector_exts == Get(cpu_config.v.vector_extensions, <<>>)
           target_cpu == Get(cpu_config.v.target_cpu, <<"g", "e", "n", "e", "r", "i", "c">>)
           x86_exts == valid_extensions
                         \ {F_neon, <<"f", "m", "a">>, <<"f", "1", "6", "c">>,
                            <<"b", "m", "i">>, <<"b", "m", "i", "2">>}
       IN IF target_cpu # Some(<<"a", "r", "m", "6", "4">>) THEN NoErr(None)
          ELSE IF vector_exts.k = "none" THEN Raise("TypeError")
          ELSE [exc |-> "none",
                errs |-> IF \E i \in 1..Len(vector_exts.v) : vector_exts.v[i] \in x86_exts
                         THEN <<"cpu_x86_extension_on_arm64">> ELSE <<>>,
                val |-> None]

\* _custom_validations(config): [exc, errs, val].  _validate_vulkan_config
\* and _validate_metal_config have the bodies of the cross-field checks of
\* the same target, read with .get and its defaults.
custom_validations(config) ==
  LET target == Get(config.target, "cuda")
      target_specific == config.target_specific
      target_config ==
        IF IsSome(target_specific) /\ IsSome(target) /\ target.v \in CompilationTarget
        THEN target_specific.v[target.v] ELSE Missing
      OrDefault(o, default) == IF IsSome(o) THEN o.v ELSE default
      specific ==
        CASE target_specific.k = "none" -> Raise("TypeError")
          [] target_config.k = "missing" -> NoErr(None)
          [] target.v = "cuda" -> validate_cuda_config(config, target_config)
          [] target.v = "cpu" -> validate_cpu_config(config, target_config)
          [] target_config.k = "none" -> Raise("AttributeError")
          [] target.v = "vulkan" ->
               validate_vulkan_cross_fields(config,
                 Some([spirv_version |->
                         OrDefault(target_config.v.spirv_version, Ver("1", "3")),
                       vulkan_version |->
                         OrDefault(target_config.v.vulkan_version, Ver("1", "1"))]))
          [] OTHER ->
               validate_metal_cross_fields(config,
                 Some([metal_version |->
                         OrDefault(target_config.v.metal_version, Ver("2", "4")),
                       ios_deployment_target |-> target_config.v.ios_deployment_target,
                       macos_deployment_target |->
                         target_config.v.macos_deployment_target]))
      output_format == Get(config.output_format, "vmfb")
      output_file == Get(config.output_file, S_output \o S_model \o Ext_vmfb)
      format ==
        IF ~IsSome(output_format) \/ output_format.v \notin OutputFormat THEN NoErr(None)
        ELSE IF output_file.k = "none" THEN Raise("AttributeError")
        ELSE IF ~EndsWith(output_file.v, FormatExt(output_format.v))
             THEN Err("output_format_consistency") ELSE NoErr(None)
      target_features == Get(config.target_features, <<>>)
      features ==
        IF target # Some("cuda") THEN NoErr(None)
        ELSE IF target_features.k = "none" THEN Raise("TypeError")
        ELSE IF \E i \in 1..Len(target_features.v) :
                   ~StartsWith(target_features.v[i], S_sm_)
             THEN Err("target_features_consistency") ELSE NoErr(None)
      all == <<specific, format, features>>
  IN [exc |-> FirstExc(all), errs |-> AllErrs(all), val |-> None]

\* validate_config(config, use_pydantic=False): [exc, ok, errors];
\* schema_ok is whether jsonschema.validate(config, self.schema) passed
validate_config_schema(config, schema_ok) ==
  LET custom == custom_validations(config)
  IN IF ~schema_ok
     THEN [exc |-> "none", ok |-> FALSE, errors |-> <<"schema">>]
     ELSE IF custom.exc # "none"
          THEN [exc |-> custom.exc, ok |-> FALSE, errors |-> <<>>]
          ELSE [exc |-> "none", ok |-> Len(custom.errs) = 0, errors |-> custom.errs]

\* validate_target_features_for_target(target, features): [ok, errors], an
\* error for every feature that breaks the rule of the target
validate_target_features_for_target(target, features) ==
  LET valid_cpu_features ==
        valid_extensions \cup {<<"g", "e", "n", "e", "r", "i", "c">>,
                               <<"n", "a", "t", "i", "v", "e">>}
      valid_vulkan_features ==
        {<<"s", "p", "i", "r", "v">> \o v : v \in valid_spirv_versions}
      valid_metal_features ==
        {<<"m", "e", "t", "a", "l">> \o v : v \in valid_metal_versions}
      Broken(feature) ==
        CASE target = "cuda" ->
               ~StartsWith(feature, S_sm_)
               \/ ~IsDigitStr(SubSeq(feature, 4, Len(feature)))
          [] target = "cpu" -> feature \notin valid_cpu_features
          [] target = "vulkan" -> feature \notin valid_vulkan_features
          [] target = "metal" -> feature \notin valid_metal_features
      errors == IF target \notin CompilationTarget THEN <<"unsupported_target">>
                ELSE SelectSeq(features, Broken)
  IN [ok |-> Len(errors) = 0, errors |-> errors]

(***************************************************************************)
(* normalize_config.                                                       *)
(***************************************************************************)
\* the properties of the schema document that declare a default; the test
\* fallback `validator.schema = {}` declares none
EmptySchema == [declares |-> FALSE]
DeclaredSchema == [declares |-> TRUE]
SchemaDefault(prop) ==
  CASE prop = "output_file" -> S_output \o S_model \o Ext_vmfb
    [] prop = "target" -> "cuda"
    [] prop = "optimization_level" -> "O3"
    [] prop = "target_features" -> <<>>
    [] prop = "output_format" -> "vmfb"

\* _apply_defaults: config[prop] = default where the schema declares one and
\* the key is absent
apply_defaults(config, schema) ==
  [prop \in DOMAIN config |->
     IF schema.declares
        /\ prop \in {"output_file", "target", "optimization_level",
                     "target_features", "output_format"}
        /\ config[prop].k = "missing"
     THEN Some(SchemaDefault(prop))
     ELSE config[prop]]

\* the lists list(set(xs)) can be: the distinct elements of xs in any order
\* (the iteration order of a set of str is not specified)
ListSetOutcomes(xs) ==
  {o \in UNION {[1..n -> SeqToSet(xs)] : n \in {Cardinality(SeqToSet(xs))}} :
     \A i, j \in 1..Len(o) : i # j => o[i] # o[j]}

\* a path field of normalize_config: .get(key, default), then the mount
\* prefix put before the base name; [exc, val] with val the dict entry
NormalizePath(o, prefix) ==
  CASE o.k = "missing" -> [exc |-> "none", val |-> o]
    [] o.k = "none" -> [exc |-> "AttributeError", val |-> o]
    [] OTHER -> [exc |-> "none",
                 val |-> IF StartsWith(o.v, prefix) THEN o
                         ELSE Some(prefix \o Basename(o.v))]

\* normalize_config(config); listset is what list(set(target_features))
\* returned: [exc, val]
normalize_config(config, schema, listset) ==
  LET normalized == apply_defaults(config, schema)
      outp == NormalizePath(normalized.output_file, S_output)
      inp == NormalizePath(normalized.input_file, S_input)
  IN IF normalized.target_features.k = "none"
     THEN [exc |-> "TypeError", val |-> normalized]
     ELSE IF outp.exc # "none" THEN [exc |-> outp.exc, val |-> normalized]
     ELSE IF inp.exc # "none" THEN [exc |-> inp.exc, val |-> normalized]
     ELSE [exc |-> "none",
           val |-> [normalized EXCEPT
                      !.target_features =
                         IF IsSome(@) THEN Some(listset) ELSE @,
                      !.output_file = outp.val,
                      !.input_file = inp.val]]

\* the argument of list(set(...)) in normalize_config, <<>> when the key is
\* absent or None
NormalizeFeatures(config, schema) ==
  OrEmpty(apply_defaults(config, schema).target_features)

\* whether normalize_config reaches list(set(...)) with a list
CallsListSet(config, schema) == IsSome(apply_defaults(config, schema).target_features)

(***************************************************************************)
(* generate_example_config.  Of the fields of IreeCompilationConfig the    *)
(* model carries the seven above; validation, benchmark, verbose,          *)
(* compilation_options and metadata take values that every validator       *)
(* accepts and are left out, as are use_fast_math and num_threads.         *)
(***************************************************************************)
\* a target_specific dict that names no target
NoSubs == [cuda |-> Missing, cpu |-> Missing, vulkan |-> Missing, metal |-> Missing]

\* config.dict(): every field present, an absent sub-record None
ModelDump(m) ==
  LET ts == m.target_specific.v
  IN [input_file |-> Some(m.input_file),
      output_file |-> Some(m.output_file),
      target |-> Some(m.target),
      optimization_level |-> Some(m.optimization_level),
      target_features |-> m.target_features,
      output_format |-> Some(m.output_format),
      target_specific |->
        IF ~IsSome(m.target_specific) THEN None
        ELSE Some(
          [cuda |-> IF ~IsSome(ts.cuda) THEN None
                    ELSE Some([compute_capability |-> ts.cuda.v.compute_capability,
                               max_threads_per_block |->
                                 Some(ts.cuda.v.max_threads_per_block)]),
           cpu |-> IF ~IsSome(ts.cpu) THEN None
                   ELSE Some([target_cpu |-> Some(ts.cpu.v.target_cpu),
                              vector_extensions |-> ts.cpu.v.vector_extensions]),
           vulkan |-> IF ~IsSome(ts.vulkan) THEN None
                      ELSE Some([spirv_version |-> Some(ts.vulkan.v.spirv_version),
                                 vulkan_version |-> Some(ts.vulkan.v.vulkan_version)]),
           metal |-> IF ~IsSome(ts.metal) THEN None
                     ELSE Some([metal_version |-> Some(ts.metal.v.metal_version),
                                ios_deployment_target |-> ts.metal.v.ios_deployment_target,
                                macos_deployment_target |->
                                  ts.metal.v.macos_deployment_target])])]

\* the arguments IreeCompilationConfig is constructed with for each target
ExampleArguments(target_enum) ==
  LET sm_80_86 == <<F_sm_80, S_sm_ \o <<"8", "6">> >>
      avx2_fma == <<F_avx2, <<"f", "m", "a">> >>
      With(features, specific) ==
        [input_file |-> Some(S_input \o S_model \o Ext_mlir),
         output_file |-> Some(S_output \o S_model \o Ext_vmfb),
         target |-> Some(target_enum),
         optimization_level |-> Missing,
         target_features |-> Some(features),
         output_format |-> Missing,
         target_specific |-> Some(specific)]
  IN CASE target_enum = "cuda" ->
            With(sm_80_86,
                 [NoSubs EXCEPT !.cuda = Some([compute_capability |-> Some(sm_80_86),
                                               max_threads_per_block |-> Some(256)])])
       [] target_enum = "cpu" ->
            With(avx2_fma,
                 [NoSubs EXCEPT !.cpu =
                    Some([target_cpu |-> Some(<<"g", "e", "n", "e", "r", "i", "c">>),
                          vector_extensions |-> Some(avx2_fma)])])
       [] target_enum = "vulkan" ->
            With(<< <<"s", "p", "i", "r", "v">> \o Ver("1", "3") >>,
                 [NoSubs EXCEPT !.vulkan = Some([spirv_version |-> Some(Ver("1", "3")),
                                                 vulkan_version |-> Some(Ver("1", "1"))])])
       [] target_enum = "metal" ->
            With(<< <<"m", "e", "t", "a", "l">> \o Ver("2", "4") >>,
                 [NoSubs EXCEPT !.metal =
                    Some([metal_version |-> Some(Ver("2", "4")),
                          ios_deployment_target |-> Missing,
                          macos_deployment_target |-> Some(<<"1", "1", ".", "0">>)])])

\* a pydantic model that fails to construct raises ValidationError
DumpOf(config) ==
  IF config.exc # "none" THEN Raise(config.exc)
  ELSE IF config.errs # <<>> THEN Raise("ValidationError")
       ELSE NoErr(Some(ModelDump(config.val)))

\* A faulty variant of generate_example_config, kept to show what C27 rules
\* out: the ValueError of CompilationTarget(target) is not caught.
generate_example_config_no_fallback(target) ==
  IF target \notin CompilationTarget THEN Raise("ValueError")
  ELSE DumpOf(IreeCompilationConfig(ExampleArguments(target)))

\* generate_example_config(target): [exc, errs, val], val the dict returned
generate_example_config(target) ==
  LET target_enum == IF target \in CompilationTarget THEN target ELSE "cuda"
  IN DumpOf(IreeCompilationConfig(ExampleArguments(target_enum)))

(***************************************************************************)
(* The requests the configuration engine is exercised on.                  *)
(***************************************************************************)
P_in_ok == S_input \o <<"m">> \o Ext_mlir
P_in_txt == S_input \o <<"m">> \o Ext_txt
P_out_so == S_output \o <<"m">> \o Ext_so
S_arm64 == <<"a", "r", "m", "6", "4">>

FeatureAlphabet == {F_sm_80, F_sm_70, S_sm_ \o <<"x">>, F_avx2, F_sse2}

SeqsUpTo(S, n) == UNION {[1..k -> S] : k \in 0..n}

CudaSubs ==
  { [compute_capability |-> cc, max_threads_per_block |-> Missing] :
      cc \in {Missing, None, Some(<<F_sm_80>>), Some(<<F_avx2>>)} }
  \cup { [compute_capability |-> Some(<<F_sm_80>>), max_threads_per_block |-> Some(100)] }

CpuSubs ==
  { [target_cpu |-> Some(S_arm64), vector_extensions |-> Some(<<F_avx2>>)],
    [target_cpu |-> Some(S_arm64), vector_extensions |-> Some(<<F_neon>>)],
    [target_cpu |-> Missing, vector_extensions |-> None],
    [target_cpu |-> Missing, vector_extensions |-> Some(<<F_sm_80>>)],
    [target_cpu |-> Missing, vector_extensions |-> Missing] }

VulkanSubs ==
  { [spirv_version |-> Missing, vulkan_version |-> Missing],
    [spirv_version |-> Some(Ver("1", "4")), vulkan_version |-> Some(Ver("1", "0"))],
    [spirv_version |-> Some(Ver("1", "4")), vulkan_version |-> Some(Ver("1", "1"))],
    [spirv_version |-> Some(Ver("2", "0")), vulkan_version |-> Missing] }

MetalSubs ==
  { [metal_version |-> Missing, ios_deployment_target |-> Missing,
     macos_deployment_target |-> Missing] }
  \cup { [metal_version |-> Some(Ver("3", "0")), ios_deployment_target |-> ios,
          macos_deployment_target |-> Missing] :
           ios \in {Missing, Some(<<"1", "4", ".", "0">>), Some(<<"1", "5", ".", "0">>),
                    Some(<<"x">>)} }
  \cup { [metal_version |-> Some(Ver("3", "0")), ios_deployment_target |-> Missing,
          macos_deployment_target |-> Some(<<"1", "1", ".", "0">>)] }

TargetSpecifics ==
  {Missing, None, Some(NoSubs)}
  \cup {Some([NoSubs EXCEPT !.cuda = Some(c)]) : c \in CudaSubs}
  \cup {Some([NoSubs EXCEPT !.cpu = Some(c)]) : c \in CpuSubs}
  \cup {Some([NoSubs EXCEPT !.vulkan = Some(c)]) : c \in VulkanSubs}
  \cup {Some([NoSubs EXCEPT !.metal = Some(c)]) : c \in MetalSubs}

Targets == {Missing} \cup {Some(t) : t \in CompilationTarget}

\* requests that vary the shape of the top-level fields
ShapeRequests ==
  [ input_file : {Missing, None, Some(P_in_ok), Some(<<"d", "/", "m">> \o Ext_mlir),
                 Some(P_in_txt)},
    output_file : {Missing, Some(S_output \o <<"m">> \o Ext_vmfb), Some(P_out_so),
                  Some(<<"d", "/", "m">> \o Ext_so)},
    target : {Some("cpu"), Some("cuda"), Some("tpu")},
    optimization_level : {Missing, Some("O9")},
    output_format : {Missing, Some("vmfb"), Some("so"), Some("exe")},
    target_features : {Missing, Some(<<F_avx2>>)},
    target_specific : {Missing} ]

\* requests that vary target_features
FeatureRequests ==
  [ input_file : {Some(P_in_ok)},
    output_file : {Missing},
    target : Targets,
    optimization_level : {Missing},
    output_format : {Missing},
    target_features : {Missing, None}
                      \cup {Some(fs) : fs \in SeqsUpTo(FeatureAlphabet, MaxFeatures)},
    target_specific : {Missing, Some(NoSubs),
                       Some([NoSubs EXCEPT !.cuda =
                              Some([compute_capability |-> Some(<<F_sm_80>>),
                                    max_threads_per_block |-> Missing])])} ]

\* requests that vary the target-specific sub-records
TargetSpecificRequests ==
  [ input_file : {Some(P_in_ok)},
    output_file : {Missing},
    target : Targets,
    optimization_level : {Missing},
    output_format : {Missing},
    target_features : {Missing, Some(<<F_sm_80>>), Some(<<F_avx2>>)},
    target_specific : TargetSpecifics ]

\* requests that vary the output format and the extension of the output file,
\* for every target
FormatRequests ==
  [ input_file : {Some(P_in_ok)},
    output_file : {Missing, Some(S_output \o <<"m">>)}
                  \cup {Some(S_output \o <<"m">> \o FormatExt(f)) : f \in OutputFormat},
    target : {Some(t) : t \in CompilationTarget},
    optimization_level : {Missing},
    output_format : {Missing} \cup {Some(f) : f \in OutputFormat},
    target_features : {Missing},
    target_specific : {Missing, Some(NoSubs)} ]

\* the last two: the cpu request with a repeated feature, with the default
\* output and with a shared library as output
Requests ==
  ShapeRequests \cup FeatureRequests \cup TargetSpecificRequests \cup FormatRequests
  \cup { [input_file |-> Some(P_in_ok), output_file |-> out[1], target |-> Some("cpu"),
          optimization_level |-> Some("O2"), output_format |-> out[2],
          target_features |-> Some(<<F_avx2, F_avx2, F_sse2>>),
          target_specific |-> Missing] :
           out \in {<<Missing, Missing>>, <<Some(P_out_so), Some("so")>>} }

(***************************************************************************)
(* Files and paths (file_handler.py).  A name is a sequence of characters, *)
(* a directory an opaque path, the file system a set of entries            *)
(* [dir, name, kind, size] with at most one entry per (dir, name).         *)
(***************************************************************************)
LowerLetters == <<"a", "b", "c", "d", "e", "f", "g", "h", "i", "j", "k", "l", "m",
                  "n", "o", "p", "q", "r", "s", "t", "u", "v", "w", "x", "y", "z">>
UpperLetters == <<"A", "B", "C", "D", "E", "F", "G", "H", "I", "J", "K", "L", "M",
                  "N", "O", "P", "Q", "R", "S", "T", "U", "V", "W", "X", "Y", "Z">>

\* str.isalnum of one character: true of any Unicode letter or digit
IsAlnum(c) ==
  c \in SeqToSet(LowerLetters) \cup SeqToSet(UpperLetters) \cup Digits \cup {"é"}

\* str.lower
LowerChar(c) ==
  IF c \in SeqToSet(UpperLetters)
  THEN LowerLetters[CHOOSE i \in 1..Len(UpperLetters) : UpperLetters[i] = c]
  ELSE c
Lower(s) == [i \in 1..Len(s) |-> LowerChar(s[i])]

\* str(n) of a natural number
RECURSIVE IntToChars(_)
IntToChars(n) ==
  IF n < 10 THEN <<ToString(n)>>
  ELSE IntToChars(n \div 10) \o <<ToString(n % 10)>>

\* the characters of s that satisfy keep, in order
FilterChars(s, keep) == SelectSeq(s, LAMBDA c : c \in keep)

\* pathlib: PurePath.suffix / PurePath.stem of a file name
HasSuffix(name) == RFind1(name, ".") > 1 /\ RFind1(name, ".") < Len(name)
PathSuffix(name) ==
  IF HasSuffix(name) THEN SubSeq(name, RFind1(name, "."), Len(name)) ELSE <<>>
PathStem(name) ==
  IF HasSuffix(name) THEN SubSeq(name, 1, RFind1(name, ".") - 1) ELSE name

\* Path(s).name: trailing separators are dropped before the last component
\* is taken
RECURSIVE StripTrailingSep(_)
StripTrailingSep(s) ==
  IF Len(s) > 0 /\ s[Len(s)] = "/" THEN StripTrailingSep(SubSeq(s, 1, Len(s) - 1))
  ELSE s
PathName(s) == Basename(StripTrailingSep(s))

MaxNameLength == 100

\* sanitize_filename with the path separator among the characters it keeps
sanitize_filename_keeps_separator(filename) ==
  LET kept == FilterChars(filename,
                          {c \in SeqToSet(filename) : IsAlnum(c) \/ c \in {".", "_", "-", "/"}})
      named == IF kept = <<>> \/ StartsWith(kept, <<".">>)
               THEN <<"f", "i", "l", "e", "_">> \o kept ELSE kept
  IN IF Len(named) > MaxNameLength THEN SubSeq(named, 1, MaxNameLength) ELSE named

\* SecureFileHandler.sanitize_filename
sanitize_filename(filename) ==
  LET kept == FilterChars(filename,
                          {c \in SeqToSet(filename) : IsAlnum(c) \/ c \in {".", "_", "-"}})
      named == IF kept = <<>> \/ StartsWith(kept, <<".">>) 
               THEN <<"f", "i", "l", "e", "_">> \o kept ELSE kept
  IN IF Len(named) > MaxNameLength THEN SubSeq(named, 1, MaxNameLength) ELSE named

Exists(fs, d, n) == \E e \in fs : e.dir = d /\ e.name = n
Entry(fs, d, n) == CHOOSE e \in fs : e.dir = d /\ e.name = n
IsFile(fs, d, n) == Exists(fs, d, n) /\ Entry(fs, d, n).kind = "file"

max_size == 100 * 1024 * 1024

\* SecureFileHandler.validate_input_file on the source file: "" when valid,
\* else the reason
validate_input_file(source) ==
  CASE ~source.exists -> "Input file does not exist"
    [] source.kind # "file" -> "Input path is not a file"
    [] Lower(PathSuffix(source.name)) # Ext_mlir -> "Input file must have .mlir extension"
    [] source.size > max_size -> "Input file too large"
    [] source.content = "not_utf8" -> "Input file is not valid UTF-8 text"
    [] source.content = "unreadable" -> "Error reading input file"
    [] source.content = "no_keyword" ->
         "Input file does not appear to be valid MLIR content"
    [] OTHER -> ""

\* A faulty variant of FreeName, kept to show what C19 rules out: the
\* collision loop is missing and the first candidate is taken as it is.
FreeNameUnchecked(fs, d, original, candidate, counter) == candidate

\* the collision loop of prepare_input_file: the first of name, stem_1suffix,
\* stem_2suffix, ... that does not exist in directory d
RECURSIVE FreeName(_, _, _, _, _)
FreeName(fs, d, original, candidate, counter) ==
  IF ~Exists(fs, d, candidate) THEN candidate
  ELSE FreeName(fs, d, original,
                PathStem(original) \o <<"_">> \o IntToChars(counter) \o PathSuffix(original),
                counter + 1)

\* target_name with '.mlir' appended unless it ends with it (lines 102-103)
WithMlirExtension(target_name) ==
  IF EndsWith(target_name, Ext_mlir) THEN target_name ELSE target_name \o Ext_mlir

\* the collision loop of prepare_input_file started on target_name:
\* counter = 1, original_target = target_path
FirstFreeName(fs, d, target_name) == FreeName(fs, d, target_name, target_name, 1)

\* A faulty variant of copy2, kept to show what C28 rules out: a file that
\* is already at the target path is kept (an exclusive create).
copy2_exclusive(fs, d, size, target) ==
  [exc |-> "none", name |-> target,
   fs |-> IF Exists(fs, d, target) THEN fs
          ELSE fs \cup {[dir |-> d, name |-> target, kind |-> "file", size |-> size]}]

\* shutil.copy2(source_path, target_path) and what prepare_input_file returns
\* after it: the file is written at the target path, replacing what is there
copy2(fs, d, size, target) ==
  [exc |-> "none", name |-> target,
   fs |-> {e \in fs : ~(e.dir = d /\ e.name = target)} \cup {[dir |-> d, name |-> target, kind |-> "file", size |-> size]}]

\* SecureFileHandler.prepare_input_file(source_path, target_filename):
\* [exc, name, fs] with name the staged file in base_input_dir and fs the
\* file system afterwards (shutil.copy2 writes the file at the target path,
\* replacing what is there); copy_ok is whether shutil.copy2 and chmod went
\* through
prepare_input_file(fs, base_input_dir, source, target_filename, copy_ok) ==
  IF validate_input_file(source) # ""
  THEN [exc |-> "ValueError", name |-> <<>>, fs |-> fs]
  ELSE IF ~copy_ok
       THEN [exc |-> "OSError", name |-> <<>>, fs |-> fs]
       ELSE copy2(fs, base_input_dir, source.size,
                  FirstFreeName(fs, base_input_dir,
                                IF IsSome(target_filename) /\ target_filename.v # <<>>
                                THEN WithMlirExtension(sanitize_filename(target_filename.v))
                                ELSE sanitize_filename(source.name)))

known_extensions == <<Ext_vmfb, Ext_so, Ext_dylib>>

\* SecureFileHandler.prepare_output_directory(output_filename): the name of
\* the expected output file in base_output_dir
prepare_output_directory(output_filename) ==
  LET output_name == IF IsSome(output_filename) /\ output_filename.v # <<>>
                     THEN sanitize_filename(output_filename.v)
                     ELSE S_model \o Ext_vmfb
  IN IF \E i \in 1..Len(known_extensions) : EndsWith(output_name, known_extensions[i])
     THEN output_name
     ELSE output_name \o Ext_vmfb

\* f".{expected_format}" for the value config.get('output_format', 'vmfb')
ExpectedExt(expected_format) ==
  IF expected_format.k = "none" THEN <<".", "N", "o", "n", "e">>
  ELSE <<".">> \o StrChars(expected_format.v)

\* A faulty variant of verify_output_file, kept to show what C20 rules out:
\* the extension of the file is not compared with the format.
verify_output_file_any_extension(fs, d, n, expected_format, read_ok) ==
  CASE ~Exists(fs, d, n) -> [valid |-> FALSE, info |-> "Output file was not created"]
    [] Entry(fs, d, n).kind # "file" ->
         [valid |-> FALSE, info |-> "Output path is not a file"]
    [] Entry(fs, d, n).size = 0 -> [valid |-> FALSE, info |-> "Output file is empty"]
    [] expected_format = Some("vmfb") /\ ~read_ok ->
         [valid |-> FALSE, info |-> "Error reading output file"]
    [] expected_format = Some("vmfb") /\ Entry(fs, d, n).size < 4 ->
         [valid |-> FALSE, info |-> "Output file too small to be valid VMFB"]
    [] OTHER -> [valid |-> TRUE, info |-> "Output file valid"]

\* SecureFileHandler.verify_output_file(output_path, expected_format):
\* [valid, info]; read_ok is whether the file could be opened and its header
\* read (an exception there is taken by the except clause of line 230)
verify_output_file(fs, d, n, expected_format, read_ok) ==
  CASE ~Exists(fs, d, n) -> [valid |-> FALSE, info |-> "Output file was not created"]
    [] Entry(fs, d, n).kind # "file" ->
         [valid |-> FALSE, info |-> "Output path is not a file"]
    [] Entry(fs, d, n).size = 0 -> [valid |-> FALSE, info |-> "Output file is empty"]
    [] ~EndsWith(n, ExpectedExt(expected_format)) ->
         [valid |-> FALSE, info |-> "Output file extension doesn't match format"]
    [] expected_format = Some("vmfb") /\ ~read_ok ->
         [valid |-> FALSE, info |-> "Error reading output file"]
    [] expected_format = Some("vmfb") /\ Entry(fs, d, n).size < 4 ->
         [valid |-> FALSE, info |-> "Output file too small to be valid VMFB"]
    [] OTHER -> [valid |-> TRUE, info |-> "Output file valid"]

(***************************************************************************)
(* DockerManager (docker_manager.py).                                      *)
(***************************************************************************)
\* DockerManager.image_names and get_image_name: an image name is kept as
\* the pieces of 'iree-compiler:<target>-latest'
image_names(target) == <<"iree-compiler:", target, "-latest">>
get_image_name(target) ==
  IF target \in CompilationTarget THEN image_names(target)
  ELSE <<"iree-compiler:", target, "-latest">>

\* the exception classes of docker.errors; all derive from DockerException
DockerExceptions == {"DockerException", "APIError", "ImageNotFound", "ContainerError"}

\* _build_image_locally: the runs it can take.  The target is looked up from
\* the image name; an unknown image or a missing docker/<target> directory
\* ends it before any build call.
build_image_locally(image_name) ==
  IF ~\E tgt \in CompilationTarget : image_names(tgt) = image_name
  THEN {[ops |-> <<>>, results |-> <<>>, ok |-> FALSE]}
  ELSE {[ops |-> <<>>, results |-> <<>>, ok |-> FALSE],
        [ops |-> <<"build">>, results |-> <<"ok">>, ok |-> TRUE],
        [ops |-> <<"build">>, results |-> <<"DockerException">>, ok |-> FALSE]}

\* A faulty variant of ensure_image_available, kept to show what C21 rules
\* out: the image is pulled although the local lookup found it.
ensure_image_available_always_pulls(image_name) ==
  {[ops |-> <<"get", "pull">>, results |-> <<"ok", "ok">>, ok |-> TRUE],
   [ops |-> <<"get">>, results |-> <<"DockerException">>, ok |-> FALSE],
   [ops |-> <<"get", "pull">>, results |-> <<"ImageNotFound", "ok">>, ok |-> TRUE]}
  \cup {[ops |-> <<"get", "pull">> \o b.ops,
         results |-> <<"ImageNotFound", "DockerException">> \o b.results,
         ok |-> b.ok] :
          b \in build_image_locally(image_name)}

\* ensure_image_available(image_name): the runs it can take against the
\* Docker daemon, each the client calls made in order, how each ended ("ok"
\* or the exception raised) and the value returned.  images.get raising
\* another DockerException than ImageNotFound ends the call at line 97.
ensure_image_available(image_name) ==
  {[ops |-> <<"get">>, results |-> <<"ok">>, ok |-> TRUE],
   [ops |-> <<"get">>, results |-> <<"DockerException">>, ok |-> FALSE],
   [ops |-> <<"get", "pull">>, results |-> <<"ImageNotFound", "ok">>, ok |-> TRUE]}
  \cup {[ops |-> <<"get", "pull">> \o b.ops,
         results |-> <<"ImageNotFound", "DockerException">> \o b.results,
         ok |-> b.ok] :
          b \in build_image_locally(image_name)}

\* a dict display {k1: v1, k2: v2, ...}: a later item replaces an earlier one
\* with an equal key
DictLiteral(items) ==
  [k \in {items[i][1] : i \in 1..Len(items)} |->
     items[CHOOSE i \in 1..Len(items) :
             /\ items[i][1] = k
             /\ \A j \in 1..Len(items) : items[j][1] = k => j <= i][2]]

\* volumes = {str(prepared_input.parent): ..., str(prepared_output.parent): ...,
\*            str(config_file.parent): ...}
Volumes(input_parent, output_parent, config_parent) ==
  DictLiteral(<< <<input_parent, [bind |-> "/input", mode |-> "ro"]>>,
                 <<output_parent, [bind |-> "/output", mode |-> "rw"]>>,
                 <<config_parent, [bind |-> "/config", mode |-> "ro"]>> >>)

Environment(verbose, debug) ==
  [CONFIG_FILE |-> "/config/compile_config.json",
   VERBOSE |-> IF verbose THEN "1" ELSE "0",
   DEBUG |-> IF debug THEN "1" ELSE "0"]

\* A faulty variant of ContainerRunKwargs, kept to show what C3 rules out:
\* the debug setting turns the container into a root container with a
\* writable root file system.
ContainerRunKwargsDebugRoot(image_name, volumes, environment) ==
  [image |-> image_name,
   volumes |-> volumes,
   environment |-> environment,
   remove |-> TRUE,
   detach |-> FALSE,
   stdout |-> TRUE,
   stderr |-> TRUE,
   user |-> IF environment.DEBUG = "1" THEN "0:0" ELSE "1000:1000",
   read_only |-> environment.DEBUG # "1",
   tmpfs |-> [mount |-> "/tmp", options |-> <<"rw", "noexec", "nosuid", "size=100m">>],
   mem_limit |-> "2g",
   cpu_quota |-> 100000,
   network_mode |-> "none",
   cap_drop |-> <<"ALL">>,
   security_opt |-> <<"no-new-privileges">>]

\* the arguments of self.client.containers.run(...)
ContainerRunKwargs(image_name, volumes, environment) ==
  [image |-> image_name,
   volumes |-> volumes,
   environment |-> environment,
   remove |-> TRUE,
   detach |-> FALSE,
   stdout |-> TRUE,
   stderr |-> TRUE,
   user |-> "1000:1000",
   read_only |-> TRUE,
   tmpfs |-> [mount |-> "/tmp", options |-> <<"rw", "noexec", "nosuid", "size=100m">>],
   mem_limit |-> "2g",
   cpu_quota |-> 100000,
   network_mode |-> "none",
   cap_drop |-> <<"ALL">>,
   security_opt |-> <<"no-new-privileges">>]

\* a result dict: an absent key is Missing
NoResult ==
  [success |-> FALSE, error |-> Missing, logs |-> Missing, input_file |-> Missing,
   output_file |-> Missing, output_info |-> Missing, warning |-> Missing,
   validation_result |-> Missing, latency_ms |-> Missing,
   throughput_ops_per_sec |-> Missing]

\* how a call ends
Returned(r) == [k |-> "returned", v |-> r]
Raised(e) == [k |-> "raised", exc |-> e]

\* {'success': False, 'error': ..., 'logs': ...}
FailureResult(error, logs) ==
  [NoResult EXCEPT !.error = Some([kind |-> error, text |-> <<>>]),
                   !.logs = Some(logs)]

\* A faulty variant of run_compilation_except, kept to show what C6 rules
\* out: the two `except Exception` clauses are missing, so only ValueError of
\* the staging and the Docker exceptions are turned into results.
run_compilation_except_narrow(where, e) ==
  CASE where = "prepare_input_file" /\ e = "ValueError" ->
         Returned(FailureResult("Input file preparation failed", "exception"))
    [] e = "ContainerError" ->
         Returned(FailureResult("Container execution failed", "stderr"))
    [] e \in DockerExceptions -> Returned(FailureResult("Docker error", "exception"))
    [] OTHER -> Raised(e)

\* the except clause of run_compilation that takes exception e raised at
\* `where`, and how run_compilation ends: "prepare_input_file" is the try of
\* lines 214-223, "with" the try of lines 237-359, anything else only the
\* outermost try
run_compilation_except(where, e) ==
  CASE where = "prepare_input_file" /\ e = "ValueError" ->
         Returned(FailureResult("Input file preparation failed", "exception"))
    [] where = "with" -> Returned(FailureResult("File preparation error", "exception"))
    [] e = "ContainerError" -> Returned(FailureResult("Container execution failed", "stderr"))
    [] e \in DockerExceptions -> Returned(FailureResult("Docker error", "exception"))
    [] OTHER -> Returned(FailureResult("Unexpected error", "exception"))

\* str.strip of blanks
RECURSIVE LStrip(_)
LStrip(s) == IF Len(s) > 0 /\ s[1] = " " THEN LStrip(Tail(s)) ELSE s
RECURSIVE RStrip(_)
RStrip(s) ==
  IF Len(s) > 0 /\ s[Len(s)] = " " THEN RStrip(SubSeq(s, 1, Len(s) - 1)) ELSE s
Strip(s) == LStrip(RStrip(s))

\* A line of the container output is [marker, rest]: marker is the one of
\* 'VALIDATION_RESULT:', 'BENCHMARK_LATENCY:', 'BENCHMARK_THROUGHPUT:',
\* 'ERROR:' the line starts with ("" when none) and rest the text after it,
\* line.split(':', 1)[1].  The loop over output_lines: [exc, result].
RECURSIVE ParseOutputLines(_, _)
ParseOutputLines(result, lines) ==
  IF Len(lines) = 0 THEN [exc |-> "none", result |-> result]
  ELSE LET line == lines[1]
           value == Strip(line.rest)
       IN CASE line.marker = "VALIDATION_RESULT:" ->
                 ParseOutputLines([result EXCEPT !.validation_result = Some(value)],
                                  Tail(lines))
            [] line.marker = "BENCHMARK_LATENCY:" ->
                 IF ParseFloat(value).ok
                 THEN ParseOutputLines(
                        [result EXCEPT !.latency_ms = Some(ParseFloat(value))],
                        Tail(lines))
                 ELSE [exc |-> "ValueError", result |-> result]
            [] line.marker = "BENCHMARK_THROUGHPUT:" ->
                 IF ParseFloat(value).ok
                 THEN ParseOutputLines(
                        [result EXCEPT !.throughput_ops_per_sec = Some(ParseFloat(value))],
                        Tail(lines))
                 ELSE [exc |-> "ValueError", result |-> result]
            [] line.marker = "ERROR:" ->
                 ParseOutputLines(
                   [result EXCEPT !.error = Some([kind |-> "ERROR:", text |-> value])],
                   Tail(lines))
            [] OTHER -> ParseOutputLines(result, Tail(lines))

\* A faulty variant of BuildResult, kept to show what C1 rules out: the run
\* is taken for successful whatever verify_output_file said.
BuildResultUnverified(output_valid, output_info, prepared_input, prepared_output) ==
  [NoResult EXCEPT
     !.success = TRUE,
     !.logs = Some("container output"),
     !.input_file = Some(prepared_input),
     !.output_file = Some(prepared_output),
     !.output_info = Some(output_info)]

\* the result dict of lines 312-326, before the markers are read
BuildResult(output_valid, output_info, prepared_input, prepared_output) ==
  [NoResult EXCEPT
     !.success = output_valid,
     !.logs = Some("container output"),
     !.input_file = Some(prepared_input),
     !.output_file = IF output_valid THEN Some(prepared_output) ELSE None,
     !.output_info = Some(output_info),
     !.error = IF output_valid THEN Missing
               ELSE Some([kind |-> "Output validation failed", text |-> <<>>])]

(***************************************************************************)
(* State.                                                                  *)
(***************************************************************************)
VARIABLES
  req,          \* the request (config dict) under validation
  schema,       \* ConfigValidator.schema
  cpc,          \* position of the configuration-engine run
  vres,         \* validate_config(req)
  n1,           \* normalize_config(req)
  vn1,          \* validate_config(normalize_config(req))
  n2,           \* normalize_config(normalize_config(req))
  sres,         \* validate_config(req, use_pydantic=False)
  listsetMemo,  \* what list(set(xs)) returned for each xs so far in this process
  pc,           \* position of the compile pipeline
  mgr,          \* how the DockerManager is made: entry, verbose, debug, directories
  source,       \* the file source_input_path names
  target_output_path,  \* None or the Path [dir, name] the caller wants the output at
  fs,           \* the file system
  temp_dirs,    \* SecureFileHandler.temp_dirs
  run,          \* the locals of run_compilation
  imageOps,     \* the image calls made on the Docker client, in order
  launches,     \* the arguments of every containers.run call, in order
  container,    \* what the container run gave back
  produced,     \* whether this run's container wrote the output artifact
  outcome,      \* how run_compilation ended: Missing, returned result or raised
  fh,           \* the calls made on a SecureFileHandler of its own: see FilesInit
  rmtrees,      \* the shutil.rmtree calls made, in order: the directory, whether it went through
  stagers,      \* two concurrent calls of prepare_input_file: see StagingInit
  example       \* the call of generate_example_config made, if any: its target and result

cvars == <<req, schema, cpc, vres, n1, vn1, n2, sres, listsetMemo>>
pvars == <<pc, mgr, source, target_output_path, fs, temp_dirs, run, imageOps,
           launches, container, produced, outcome, fh, rmtrees, stagers, example>>
vars == <<req, schema, cpc, vres, n1, vn1, n2, sres, listsetMemo, pc, mgr, source,
          target_output_path, fs, temp_dirs, run, imageOps, launches, container,
          produced, outcome, fh, rmtrees, stagers, example>>

Pending == [exc |-> "pending", ok |-> FALSE, errors |-> <<>>]
PendingN == [exc |-> "pending", val |-> Missing]

\* list(set(xs)) is a function of xs within one process: an xs seen before
\* gives the list it gave before
ListSetChoices(xs) ==
  IF \E m \in listsetMemo : m[1] = xs
  THEN {m[2] : m \in {mm \in listsetMemo : mm[1] = xs}}
  ELSE ListSetOutcomes(xs)

NoRun ==
  [staged |-> FALSE, prepared_input |-> <<>>, prepared_output |-> <<>>,
   temp_dir |-> "", docker_config |-> Missing, kwargs |-> Missing,
   output_valid |-> Missing]
NoContainer == [log |-> <<>>, decodable |-> TRUE]

\* a SecureFileHandler on which nothing was called yet: the stagings made, in
\* order, and the last call of sanitize_filename or verify_output_file
NoCalls == [staged |-> <<>>, last |-> Missing]

\* no concurrent calls of prepare_input_file
NoStagers == <<>>

\* generate_example_config was not called
NoExample == Missing

ConfigInit ==
  /\ req \in Requests
  /\ schema \in {EmptySchema, DeclaredSchema}
  /\ cpc = "start"
  /\ vres = Pending
  /\ n1 = PendingN
  /\ vn1 = Pending
  /\ n2 = PendingN
  /\ sres = Pending
  /\ listsetMemo = {}
  /\ pc = "off"
  /\ mgr = [entry |-> "api", verbose |-> FALSE, debug |-> FALSE,
            input_dir |-> "input", output_dir |-> "output"]
  /\ source = [name |-> <<>>, exists |-> FALSE, kind |-> "file", size |-> 0,
               content |-> "mlir"]
  /\ target_output_path = None
  /\ fs = {}
  /\ temp_dirs = <<>>
  /\ run = NoRun
  /\ imageOps = <<>>
  /\ launches = <<>>
  /\ container = NoContainer
  /\ produced = FALSE
  /\ outcome = Missing
  /\ fh = NoCalls
  /\ rmtrees = <<>>
  /\ stagers = NoStagers
  /\ example = NoExample

\* is_valid, errors = validator.validate_config(config)
ValidateRequest ==
  /\ cpc = "start"
  /\ vres' = validate_config(req)
  /\ cpc' = "validated"
  /\ UNCHANGED <<sres, req, schema, n1, vn1, n2, listsetMemo>>
  /\ UNCHANGED pvars

\* is_valid, errors = validator.validate_config(config, use_pydantic=False).
\* The schema document is data read at construction: a schema that declares
\* properties may accept or reject the request, the empty schema of the test
\* fallback accepts every request.
ValidateRequestSchemaBased ==
  /\ cpc = "start"
  /\ sres = Pending
  /\ \E schema_ok \in (IF schema.declares THEN BOOLEAN ELSE {TRUE}) :
       sres' = validate_config_schema(req, schema_ok)
  /\ UNCHANGED <<req, schema, cpc, vres, n1, vn1, n2, listsetMemo>>
  /\ UNCHANGED pvars

\* normalized = validator.normalize_config(config)
NormalizeRequest ==
  /\ cpc = "validated"
  /\ \E ls \in ListSetChoices(NormalizeFeatures(req, schema)) :
       /\ n1' = normalize_config(req, schema, ls)
       /\ listsetMemo' = IF CallsListSet(req, schema)
                         THEN listsetMemo \cup {<<NormalizeFeatures(req, schema), ls>>}
                         ELSE listsetMemo
  /\ cpc' = "normalized"
  /\ UNCHANGED <<sres, req, schema, vres, vn1, n2>>
  /\ UNCHANGED pvars

\* validator.validate_config(normalized)
ValidateNormalized ==
  /\ cpc = "normalized"
  /\ n1.exc = "none"
  /\ vn1' = validate_config(n1.val)
  /\ cpc' = "revalidated"
  /\ UNCHANGED <<sres, req, schema, vres, n1, n2, listsetMemo>>
  /\ UNCHANGED pvars

\* validator.normalize_config(normalized)
NormalizeAgain ==
  /\ cpc = "revalidated"
  /\ \E ls \in ListSetChoices(NormalizeFeatures(n1.val, schema)) :
       /\ n2' = normalize_config(n1.val, schema, ls)
       /\ listsetMemo' = IF CallsListSet(n1.val, schema)
                         THEN listsetMemo \cup {<<NormalizeFeatures(n1.val, schema), ls>>}
                         ELSE listsetMemo
  /\ cpc' = "renormalized"
  /\ UNCHANGED <<sres, req, schema, vres, n1, vn1>>
  /\ UNCHANGED pvars

\* the names generate_example_config is asked for: the four targets and an
\* unknown one
ExampleTargets == CompilationTarget \cup {"tpu"}

\* config = validator.generate_example_config(target): the request at hand
\* becomes the example
GenerateExample ==
  /\ cpc = "start"
  /\ sres = Pending
  /\ example = NoExample
  /\ \E target \in ExampleTargets :
       LET config == generate_example_config(target)
       IN /\ example' = Some([target |-> target, result |-> config])
          /\ req' = IF config.exc = "none" THEN config.val.v ELSE req
  /\ UNCHANGED <<schema, cpc, vres, n1, vn1, n2, sres, listsetMemo>>
  /\ UNCHANGED <<pc, mgr, source, target_output_path, fs, temp_dirs, run, imageOps,
                 launches, container, produced, outcome, fh, rmtrees, stagers>>

ConfigNext ==
  \/ GenerateExample
  \/ ValidateRequest
  \/ ValidateRequestSchemaBased
  \/ NormalizeRequest
  \/ ValidateNormalized
  \/ NormalizeAgain

SpecConfig == ConfigInit /\ [][ConfigNext]_vars

(***************************************************************************)
(* The compile pipeline: `compile` of cli.py driving                       *)
(* DockerManager.run_compilation, or run_compilation called directly on a  *)
(* DockerManager made with directories of the caller's choice.             *)
(***************************************************************************)
N_m_mlir == <<"m">> \o Ext_mlir
N_m_vmfb == <<"m">> \o Ext_vmfb
N_compile_config == <<"c", "o", "m", "p", "i", "l", "e", "_", "c", "o", "n", "f", "i", "g",
                      ".", "j", "s", "o", "n">>

BaseRequest ==
  [input_file |-> Some(P_in_ok), output_file |-> Missing, target |-> Some("cpu"),
   optimization_level |-> Missing, output_format |-> Missing,
   target_features |-> Missing, target_specific |-> Missing]

CudaSub ==
  Some([NoSubs EXCEPT !.cuda = Some([compute_capability |-> Some(<<F_sm_80>>),
                                     max_threads_per_block |-> Missing])])

\* the config documents `compile` is run on
RunRequests ==
  { BaseRequest,
    [BaseRequest EXCEPT !.output_file = Some(P_out_so), !.output_format = Some("so")],
    [BaseRequest EXCEPT !.target = Some("cuda")],
    [BaseRequest EXCEPT !.target = Some("cuda"), !.target_specific = CudaSub,
                        !.target_features = Some(<<F_sm_80>>)],
    [BaseRequest EXCEPT !.target = Missing, !.target_specific = CudaSub],
    [BaseRequest EXCEPT !.input_file = Some(P_in_txt)],
    [BaseRequest EXCEPT !.target_features = None],
    [BaseRequest EXCEPT !.target_features = Some(<<F_sm_80>>)] }

\* the config dicts run_compilation is called with directly
DirectRequests ==
  { BaseRequest,
    [BaseRequest EXCEPT !.output_file = Some(P_out_so), !.output_format = Some("so")],
    [BaseRequest EXCEPT !.target = Missing, !.target_specific = CudaSub] }

\* DockerManager(verbose, debug) as `compile` makes it, and
\* DockerManager(verbose, debug, input_dir, output_dir) made directly
Managers ==
  { [entry |-> "cli", verbose |-> v, debug |-> d, input_dir |-> "input",
     output_dir |-> "output"] :
       v \in BOOLEAN, d \in BOOLEAN }
  \cup
  { [entry |-> "api", verbose |-> v, debug |-> d, input_dir |-> dirs[1],
     output_dir |-> dirs[2]] :
       v \in BOOLEAN, d \in BOOLEAN, dirs \in {<<"input", "output">>, <<"work", "work">>} }

GoodSource ==
  [name |-> N_m_mlir, exists |-> TRUE, kind |-> "file", size |-> 12, content |-> "mlir"]

Sources ==
  { GoodSource,
    [GoodSource EXCEPT !.name = <<"M", ".", "M", "L", "I", "R">>],
    [GoodSource EXCEPT !.name = <<"m">> \o Ext_txt],
    [GoodSource EXCEPT !.size = max_size + 1],
    [GoodSource EXCEPT !.content = "no_keyword"],
    [GoodSource EXCEPT !.content = "not_utf8"],
    [GoodSource EXCEPT !.exists = FALSE] }

File(d, n, size) == [dir |-> d, name |-> n, kind |-> "file", size |-> size]
Dir(d, n) == [dir |-> d, name |-> n, kind |-> "dir", size |-> 0]

\* what the staging directories hold before the run: files staged by earlier
\* runs, what an earlier run left at the output path, and a file that is
\* already at the caller's destination
InitialFileSystems(input_dir, output_dir) ==
  { {},
    {File(input_dir, N_m_mlir, 12), File(output_dir, N_m_vmfb, 8)},
    {File(input_dir, N_m_mlir, 12), File(input_dir, <<"m", "_", "1">> \o Ext_mlir, 12),
     Dir(output_dir, N_m_vmfb)},
    {File("dist", N_m_vmfb, 5)} }

TargetOutputPaths ==
  { Some([dir |-> "output", name |-> N_m_vmfb]),
    Some([dir |-> "dist", name |-> N_m_vmfb]),
    Some([dir |-> "dist", name |-> <<"m">> \o Ext_so]) }

Init ==
  /\ mgr \in Managers
  /\ req \in IF mgr.entry = "cli" THEN RunRequests ELSE DirectRequests
  /\ schema \in IF mgr.entry = "cli" THEN {EmptySchema, DeclaredSchema} ELSE {EmptySchema}
  /\ cpc = "start"
  /\ vres = Pending
  /\ n1 = PendingN
  /\ vn1 = Pending
  /\ n2 = PendingN
  /\ sres = Pending
  /\ listsetMemo = {}
  /\ pc = IF mgr.entry = "cli" THEN "cli" ELSE "ready"
  /\ source \in {f \in Sources : mgr.entry = "cli" => f.exists}
  /\ target_output_path \in
       IF mgr.entry = "cli" THEN TargetOutputPaths ELSE TargetOutputPaths \cup {None}
  /\ fs \in InitialFileSystems(mgr.input_dir, mgr.output_dir)
  /\ temp_dirs = <<>>
  /\ run = NoRun
  /\ imageOps = <<>>
  /\ launches = <<>>
  /\ container = NoContainer
  /\ produced = FALSE
  /\ outcome = Missing
  /\ fh = NoCalls
  /\ rmtrees = <<>>
  /\ stagers = NoStagers
  /\ example = NoExample

\* A faulty variant of CliProceeds, kept to show what C5 rules out: `compile`
\* goes on whatever validate_config returned.
CliProceedsAlways(v) == TRUE

\* `compile` goes on after validate_config only when it returned is_valid;
\* a rejection and an exception both end in sys.exit(1)
CliProceeds(v) == v.exc = "none" /\ v.ok

\* cli.py 96-105: is_valid, errors = validator.validate_config(config_data)
CliValidate ==
  /\ pc = "cli"
  /\ vres' = validate_config(req)
  /\ pc' = IF CliProceeds(vres') THEN "cli_validated" ELSE "exit"
  /\ UNCHANGED <<sres, fh, rmtrees, stagers, example, req, schema, cpc, n1, vn1, n2, listsetMemo, mgr, source,
                 target_output_path, fs, temp_dirs, run, imageOps, launches,
                 container, produced, outcome>>

\* cli.py 107-112: normalized_config = validator.normalize_config(config_data)
CliNormalize ==
  /\ pc = "cli_validated"
  /\ \E ls \in ListSetChoices(NormalizeFeatures(req, schema)) :
       /\ n1' = normalize_config(req, schema, ls)
       /\ listsetMemo' = IF CallsListSet(req, schema)
                         THEN listsetMemo \cup {<<NormalizeFeatures(req, schema), ls>>}
                         ELSE listsetMemo
  /\ pc' = IF n1'.exc = "none" THEN "cli_normalized" ELSE "exit"
  /\ UNCHANGED <<sres, fh, rmtrees, stagers, example, req, schema, cpc, vres, vn1, n2, mgr, source, target_output_path,
                 fs, temp_dirs, run, imageOps, launches, container, produced,
                 outcome>>

\* the calls by `who` on the Docker client
ImageCalls(who, image_name, ens) ==
  [i \in 1..Len(ens.ops) |->
     [by |-> who, op |-> ens.ops[i], image |-> image_name, result |-> ens.results[i]]]

\* the --target option of `compile`: the target of the config document, or
\* the option's default
CliTarget == IF IsSome(req.target) THEN req.target.v ELSE "cuda"

\* utils.validate_file_paths(input_path, output_path)
validate_file_paths(input) == input.exists /\ input.kind = "file"

\* cli.py 114-149: validate_file_paths, the dry run, DockerManager(...),
\* check_docker_available and ensure_image_available of the --target image
CliPrepare ==
  /\ pc = "cli_normalized"
  /\ \E dry_run \in BOOLEAN, docker_available \in BOOLEAN,
        ens \in ensure_image_available(get_image_name(CliTarget)) :
       IF ~validate_file_paths(source) \/ dry_run \/ ~docker_available
       THEN pc' = "exit" /\ imageOps' = imageOps
       ELSE /\ imageOps' = imageOps
                           \o ImageCalls("cli", get_image_name(CliTarget), ens)
            /\ pc' = IF ens.ok THEN "ready" ELSE "exit"
  /\ UNCHANGED <<sres, fh, rmtrees, stagers, example, req, schema, cpc, vres, n1, vn1, n2, listsetMemo, mgr, source,
                 target_output_path, fs, temp_dirs, run, launches, container,
                 produced, outcome>>

\* the config dict run_compilation is called with
RunConfig == IF mgr.entry = "cli" THEN n1.val ELSE req

\* list.remove(x) where x is in the list
RECURSIVE RemoveFirst(_, _)
RemoveFirst(s, x) ==
  IF Len(s) = 0 THEN <<>>
  ELSE IF s[1] = x THEN Tail(s) ELSE <<s[1]>> \o RemoveFirst(Tail(s), x)

\* A faulty variant of cleanup_temporary_directory, kept to show what C25
\* rules out: the try/except is missing and a failure of rmtree is raised.
cleanup_temporary_directory_raising(files, dirs, temp_dir, rmtree_ok) ==
  IF ~\E e \in files : e.dir = temp_dir
  THEN [fs |-> files, exc |-> "none", rmtrees |-> <<>>,
        temp_dirs |-> IF InSeq(temp_dir, dirs) THEN RemoveFirst(dirs, temp_dir) ELSE dirs]
  ELSE IF rmtree_ok
  THEN [fs |-> {e \in files : e.dir # temp_dir}, exc |-> "none",
        rmtrees |-> <<[dir |-> temp_dir, ok |-> TRUE]>>,
        temp_dirs |-> IF InSeq(temp_dir, dirs) THEN RemoveFirst(dirs, temp_dir) ELSE dirs]
  ELSE [fs |-> files, exc |-> "OSError",
        rmtrees |-> <<[dir |-> temp_dir, ok |-> FALSE]>>, temp_dirs |-> dirs]

\* cleanup_temporary_directory(temp_dir): [fs, temp_dirs, exc, rmtrees].  When
\* the directory exists, rmtree, and then the removal from temp_dirs; when
\* rmtree fails, the warning and nothing else.  exc is what the call raises
\* and rmtrees the rmtree calls it made.
cleanup_temporary_directory(files, dirs, temp_dir, rmtree_ok) ==
  IF ~\E e \in files : e.dir = temp_dir
  THEN [fs |-> files, exc |-> "none", rmtrees |-> <<>>,
        temp_dirs |-> IF InSeq(temp_dir, dirs) THEN RemoveFirst(dirs, temp_dir) ELSE dirs]
  ELSE IF rmtree_ok
  THEN [fs |-> {e \in files : e.dir # temp_dir}, exc |-> "none",
        rmtrees |-> <<[dir |-> temp_dir, ok |-> TRUE]>>,
        temp_dirs |-> IF InSeq(temp_dir, dirs) THEN RemoveFirst(dirs, temp_dir) ELSE dirs]
  ELSE [fs |-> files, exc |-> "none",
        rmtrees |-> <<[dir |-> temp_dir, ok |-> FALSE]>>, temp_dirs |-> dirs]

\* A faulty variant of temporary_directory_exit, kept to show what C24 rules
\* out: the try/finally is missing, so the directory is cleaned up only when
\* the block ends without an exception.
temporary_directory_exit_no_finally(files, dirs, temp_dir, rmtree_ok, how) ==
  IF how = "exception"
  THEN [fs |-> files, exc |-> "none", rmtrees |-> <<>>, temp_dirs |-> dirs]
  ELSE cleanup_temporary_directory(files, dirs, temp_dir, rmtree_ok)

\* temporary_directory, lines 167-170: leaving the `with` block, by a return
\* or by an exception (how), runs the finally clause
temporary_directory_exit(files, dirs, temp_dir, rmtree_ok, how) ==
  cleanup_temporary_directory(files, dirs, temp_dir, rmtree_ok)

\* what run_compilation ends with when the `with` block of line 238 was left
\* with `out` and the cleanup `c`: an exception of the cleanup is raised at
\* the `with` statement and taken by the except clause of line 354
LeaveWith(out, c) ==
  IF c.exc = "none" THEN out ELSE run_compilation_except("with", c.exc)

\* docker_config of lines 243-245
DockerConfig(config, prepared_input, prepared_output) ==
  [config EXCEPT !.input_file = Some(S_input \o prepared_input),
                 !.output_file = Some(S_output \o prepared_output)]

\* config['target'] as get_image_name receives it
TargetOf(config) == IF IsSome(config.target) THEN config.target.v ELSE "None"

Step(next_pc, out, files, dirs, locals, ops) ==
  [pc |-> next_pc, outcome |-> out, fs |-> files, temp_dirs |-> dirs,
   run |-> locals, ops |-> ops, rmtrees |-> <<>>]

\* run_compilation ends on leaving the `with` block with `out`
StepLeaving(out, c, locals, ops) ==
  [pc |-> "done", outcome |-> LeaveWith(out, c), fs |-> c.fs, temp_dirs |-> c.temp_dirs,
   run |-> locals, ops |-> ops, rmtrees |-> c.rmtrees]

\* The runs ensure_image_available(image_name) can take now: an image an
\* earlier call made available is still there, so images.get finds it or
\* the daemon fails.
EnsureRuns(image_name) ==
  IF \E i \in 1..Len(imageOps) : imageOps[i].image = image_name
  THEN {r \in ensure_image_available(image_name) : r.ops = <<"get">>}
  ELSE ensure_image_available(image_name)

\* run_compilation, lines 209-276: everything up to the container launch.
\* client_ok: docker.from_env() went through; copy_ok: the copy into the
\* input directory did; prep: whether mkdtemp or the write of the config
\* document failed; ens: the run of ensure_image_available
run_compilation_staged(config, client_ok, prep, rmtree_ok, ens, staging) ==
  LET output_filename ==
        IF IsSome(target_output_path) THEN Some(target_output_path.v.name)
        ELSE IF IsSome(config.output_file) THEN Some(PathName(config.output_file.v))
        ELSE None
      prepared_output == prepare_output_directory(output_filename)
      temp_dir == "/tmp/docker_config_0"
      staged == [NoRun EXCEPT !.staged = TRUE, !.prepared_input = staging.name]
      reserved == [staged EXCEPT !.prepared_output = prepared_output]
      inWith == [reserved EXCEPT !.temp_dir = temp_dir]
      fsTemp == staging.fs \cup {Dir(temp_dir, <<>>)}
      fsConfig == fsTemp \cup {File(temp_dir, N_compile_config, 1)}
      dirsTemp == Append(temp_dirs, temp_dir)
      image_name == get_image_name(TargetOf(config))
      kwargs == ContainerRunKwargs(
                  image_name,
                  Volumes(mgr.input_dir, mgr.output_dir, temp_dir),
                  Environment(mgr.verbose, mgr.debug))
      written == [inWith EXCEPT
                    !.docker_config =
                       Some(DockerConfig(config, staging.name, prepared_output))]
      raised == temporary_directory_exit(fsConfig, dirsTemp, temp_dir, rmtree_ok,
                                         "exception")
      returned == temporary_directory_exit(fsConfig, dirsTemp, temp_dir, rmtree_ok,
                                           "return")
  IN IF ~client_ok
     THEN Step("done", run_compilation_except("outer", "DockerException"),
               fs, temp_dirs, NoRun, <<>>)
     ELSE IF staging.exc # "none"
     THEN Step("done", run_compilation_except("prepare_input_file", staging.exc),
               fs, temp_dirs, NoRun, <<>>)
     ELSE IF ~IsSome(target_output_path) /\ config.output_file.k = "none"
     THEN Step("done", run_compilation_except("outer", "TypeError"),
               staging.fs, temp_dirs, staged, <<>>)
     ELSE IF prep = "mkdtemp"
     THEN Step("done", run_compilation_except("with", "OSError"),
               staging.fs, temp_dirs, reserved, <<>>)
     ELSE IF prep = "write"
     THEN StepLeaving(run_compilation_except("with", "OSError"),
                      temporary_directory_exit(fsTemp, dirsTemp, temp_dir, rmtree_ok,
                                               "exception"),
                      inWith, <<>>)
     ELSE IF config.target.k = "missing"
     THEN StepLeaving(run_compilation_except("with", "KeyError"), raised, written, <<>>)
     ELSE IF ~ens.ok
     THEN StepLeaving(Returned(FailureResult("Docker image not available",
                                             "Failed to pull or build image")),
                      returned, written,
                      ImageCalls("run_compilation", image_name, ens))
     ELSE Step("launching", Missing, fsConfig, dirsTemp,
               [written EXCEPT !.kwargs = Some(kwargs)],
               ImageCalls("run_compilation", image_name, ens))

\* run_compilation from its entry: the input file is staged first
run_compilation_start(config, client_ok, copy_ok, prep, rmtree_ok, ens) ==
  run_compilation_staged(config, client_ok, prep, rmtree_ok, ens,
                         prepare_input_file(fs, mgr.input_dir, source, None, copy_ok))

RunCompilationStart ==
  /\ pc = "ready"
  /\ \E client_ok \in (IF mgr.entry = "cli" THEN {TRUE} ELSE BOOLEAN),
        copy_ok \in BOOLEAN, prep \in {"ok", "mkdtemp", "write"},
        rmtree_ok \in BOOLEAN,
        ens \in EnsureRuns(get_image_name(TargetOf(RunConfig))) :
       \* a choice that the run does not come to is left at its first value
       /\ (~client_ok \/ validate_input_file(source) # "" \/ ~copy_ok) =>
             (prep = "ok" /\ rmtree_ok /\ ens.ops = <<"get">> /\ ens.ok)
       /\ (~client_ok \/ validate_input_file(source) # "") => copy_ok
       /\ prep # "ok" => (ens.ops = <<"get">> /\ ens.ok)
       /\
          LET st == run_compilation_start(RunConfig, client_ok, copy_ok, prep,
                                          rmtree_ok, ens)
          IN
          /\ pc' = st.pc
          /\ outcome' = st.outcome
          /\ fs' = st.fs
          /\ temp_dirs' = st.temp_dirs
          /\ run' = st.run
          /\ imageOps' = imageOps \o st.ops
          /\ rmtrees' = rmtrees \o st.rmtrees
  /\ UNCHANGED <<sres, fh, stagers, example, req, schema, cpc, vres, n1, vn1, n2, listsetMemo, mgr, source,
                 target_output_path, launches, container, produced>>

Line(marker, rest) == [marker |-> marker, rest |-> rest]

\* the outputs a container run is given here
ContainerLogs ==
  << <<>>,
    << Line("", <<"S", "U", "C", "C", "E", "S", "S">>) >>,
    << Line("ERROR:", <<" ", "b", "o", "o", "m">>) >>,
    << Line("", <<"S", "U", "C", "C", "E", "S", "S">>),
       Line("BENCHMARK_LATENCY:", <<" ", "1", "2", ".", "5">>),
       Line("VALIDATION_RESULT:", <<" ", "o", "k", " ">>) >>,
    << Line("BENCHMARK_LATENCY:", <<" ", "f", "a", "s", "t">>) >>,
    << Line("BENCHMARK_THROUGHPUT:", <<>>) >> >>

\* what containers.run(...) can do: raise, or return the output bytes, after
\* the container wrote an artifact of some size at its output path or none
ContainerOutcomes ==
  { [exc |-> e, log |-> <<>>, decodable |-> TRUE, artifact |-> None] :
      e \in {"ContainerError", "APIError"} }
  \cup
  { [exc |-> "none", log |-> l, decodable |-> TRUE, artifact |-> a] :
      l \in {ContainerLogs[1], ContainerLogs[2]},
      a \in {None, Some(0), Some(2), Some(8)} }
  \cup
  { [exc |-> "none", log |-> ContainerLogs[i], decodable |-> TRUE, artifact |-> Some(8)] :
      i \in 3..Len(ContainerLogs) }
  \cup
  { [exc |-> "none", log |-> ContainerLogs[3], decodable |-> TRUE, artifact |-> None],
    [exc |-> "none", log |-> <<>>, decodable |-> FALSE, artifact |-> Some(8)] }

\* the host directories bound at mount point `bind` with mode `mode`
BoundAt(volumes, bind, mode) ==
  {k \in DOMAIN volumes : volumes[k].bind = bind /\ volumes[k].mode = mode}

\* whether the container can write file n of its /output: a writable binding
\* is there and no directory is in the way
CanWrite(files, volumes, n) ==
  /\ BoundAt(volumes, "/output", "rw") # {}
  /\ \A d \in BoundAt(volumes, "/output", "rw") :
       ~(Exists(files, d, n) /\ Entry(files, d, n).kind = "dir")

\* the file system after the container wrote `size` bytes to /output/n
ContainerWrites(files, volumes, n, size) ==
  {e \in files : ~(e.dir \in BoundAt(volumes, "/output", "rw") /\ e.name = n)}
  \cup {File(d, n, size) : d \in BoundAt(volumes, "/output", "rw")}

\* run_compilation, lines 279-298: self.client.containers.run(...); an
\* exception of the run leaves the `with` block and is taken by the except
\* clause of line 354
ContainerRun ==
  /\ pc = "launching"
  /\ launches' = Append(launches, run.kwargs.v)
  /\ \E out \in ContainerOutcomes, rmtree_ok \in BOOLEAN :
       LET c == temporary_directory_exit(fs, temp_dirs, run.temp_dir, rmtree_ok,
                                         "exception")
           writes == IsSome(out.artifact)
                     /\ CanWrite(fs, run.kwargs.v.volumes, run.prepared_output)
       IN IF out.exc # "none"
          THEN /\ pc' = "done"
               /\ outcome' = LeaveWith(run_compilation_except("with", out.exc), c)
               /\ fs' = c.fs
               /\ temp_dirs' = c.temp_dirs
               /\ rmtrees' = rmtrees \o c.rmtrees
               /\ UNCHANGED <<container, produced>>
          ELSE /\ pc' = "ran"
               /\ container' = [log |-> out.log, decodable |-> out.decodable]
               /\ produced' = writes
               /\ fs' = IF writes
                        THEN ContainerWrites(fs, run.kwargs.v.volumes,
                                             run.prepared_output, out.artifact.v)
                        ELSE fs
               /\ UNCHANGED <<outcome, temp_dirs, rmtrees>>
  /\ UNCHANGED <<sres, fh, stagers, example, req, schema, cpc, vres, n1, vn1, n2, listsetMemo, mgr, source,
                 target_output_path, run, imageOps>>

\* config.get('output_format', 'vmfb')
ExpectedFormat(config) ==
  IF config.output_format.k = "missing" THEN Some("vmfb") ELSE config.output_format

\* A faulty variant of CopiesToTarget, kept to show what C23 rules out: the
\* output is copied to the target location whatever verify_output_file said.
CopiesToTargetUnverified(output_valid, target, prepared_output) ==
  IsSome(target) /\ target.v # prepared_output

\* line 342: output_valid and target_output_path
\*           and target_output_path != prepared_output
CopiesToTarget(output_valid, target, prepared_output) ==
  output_valid /\ IsSome(target) /\ target.v # prepared_output

\* run_compilation, lines 300-352 within the try of line 237: the result of
\* the run, [outcome, fs, output_valid, how] with how the `with` block is
\* left, by the return of line 352 or by an exception.  read_ok: the header of the output file could be
\* read; copy_ok: the copy to the target location went through
run_compilation_finish(config, read_ok, copy_ok) ==
  LET prepared_input == [dir |-> mgr.input_dir, name |-> run.prepared_input]
      prepared_output == [dir |-> mgr.output_dir, name |-> run.prepared_output]
      verified == verify_output_file(fs, mgr.output_dir, run.prepared_output,
                                     ExpectedFormat(config), read_ok)
      result == BuildResult(verified.valid, verified.info, prepared_input,
                            prepared_output)
      parsed == ParseOutputLines(result, container.log)
      copies == CopiesToTarget(verified.valid, target_output_path, prepared_output)
      target == target_output_path.v
  IN IF ~container.decodable
     THEN [outcome |-> run_compilation_except("with", "UnicodeDecodeError"), fs |-> fs,
           output_valid |-> Missing, how |-> "exception"]
     ELSE IF parsed.exc # "none"
     THEN [outcome |-> run_compilation_except("with", parsed.exc), fs |-> fs,
           output_valid |-> Some(verified.valid), how |-> "exception"]
     ELSE IF ~copies
     THEN [outcome |-> Returned(parsed.result), fs |-> fs,
           output_valid |-> Some(verified.valid), how |-> "return"]
     ELSE IF copy_ok
     THEN [outcome |-> Returned([parsed.result EXCEPT !.output_file = Some(target)]),
           output_valid |-> Some(verified.valid), how |-> "return",
           fs |-> {e \in fs : ~(e.dir = target.dir /\ e.name = target.name)}
                  \cup {File(target.dir, target.name,
                             Entry(fs, mgr.output_dir, run.prepared_output).size)}]
     ELSE [outcome |->
             Returned([parsed.result EXCEPT
                         !.warning = Some("Failed to copy output to target location")]),
           fs |-> fs, output_valid |-> Some(verified.valid), how |-> "return"]

\* run_compilation from the return of containers.run to its own return, the
\* cleanup of the temporary directory on leaving the `with` block included
RunCompilationFinish ==
  /\ pc = "ran"
  /\ \E read_ok \in BOOLEAN, copy_ok \in BOOLEAN, rmtree_ok \in BOOLEAN :
       LET fin == run_compilation_finish(RunConfig, read_ok, copy_ok)
           c == temporary_directory_exit(fin.fs, temp_dirs, run.temp_dir, rmtree_ok,
                                         fin.how)
       IN \* a choice that the run does not come to is left at its first value
          /\ ~read_ok => fin # run_compilation_finish(RunConfig, TRUE, copy_ok)
          /\ outcome' = LeaveWith(fin.outcome, c)
          /\ rmtrees' = rmtrees \o c.rmtrees
          /\ run' = [run EXCEPT !.output_valid = fin.output_valid]
          /\ fs' = c.fs
          /\ temp_dirs' = c.temp_dirs
  /\ pc' = "done"
  /\ UNCHANGED <<sres, fh, stagers, example, req, schema, cpc, vres, n1, vn1, n2, listsetMemo, mgr, source,
                 target_output_path, imageOps, launches, container, produced>>

Next ==
  \/ CliValidate
  \/ CliNormalize
  \/ CliPrepare
  \/ RunCompilationStart
  \/ ContainerRun
  \/ RunCompilationFinish

Spec == Init /\ [][Next]_vars

(***************************************************************************)
(* A SecureFileHandler used on its own: calls of sanitize_filename,        *)
(* prepare_input_file and verify_output_file, in any order, on the         *)
(* directories input and output.                                           *)
(***************************************************************************)
\* the strings sanitize_filename is called on
Filenames ==
  { <<>>, <<".">>, <<".", ".">>, <<"/", "/">>, N_m_mlir, <<".", "e", "n", "v">>,
    <<"a", ".", ".", "b">>, <<"a", " ", "b", "\\", "c", ":", "d">>,
    <<".", ".", "/", ".", ".", "/", "e", "t", "c", "/", "p", "a", "s", "s", "w", "d">>,
    <<"é", "t", "é">> \o Ext_mlir,
    [i \in 1..(MaxNameLength + 1) |-> "a"] \o Ext_mlir,
    <<".">> \o [i \in 1..MaxNameLength |-> "A"] }

\* the arguments of prepare_input_file: a source file and a target_filename
StagingCalls ==
  { <<GoodSource, None>>,
    <<[GoodSource EXCEPT !.size = 13], None>>,
    <<GoodSource, Some(<<"m">>)>>,
    <<GoodSource, Some(<<".", ".", "/">> \o N_m_mlir)>>,
    <<[GoodSource EXCEPT !.name = <<"m">> \o Ext_txt], None>> }

\* what the output directory holds when verify_output_file is called
OutputFiles ==
  { File("output", <<"e">> \o Ext_vmfb, 0), File("output", <<"s">> \o Ext_vmfb, 2),
    File("output", <<"b">> \o Ext_vmfb, 4), File("output", <<"m">> \o Ext_so, 2),
    File("output", <<"m">> \o Ext_dylib, 8), Dir("output", <<"d">> \o Ext_so) }

FilesInit ==
  /\ req = BaseRequest
  /\ schema = EmptySchema
  /\ cpc = "off"
  /\ vres = Pending
  /\ n1 = PendingN
  /\ vn1 = Pending
  /\ n2 = PendingN
  /\ sres = Pending
  /\ listsetMemo = {}
  /\ pc = "off"
  /\ mgr = [entry |-> "api", verbose |-> FALSE, debug |-> FALSE,
            input_dir |-> "input", output_dir |-> "output"]
  /\ source = GoodSource
  /\ target_output_path = None
  /\ fs \in {f \cup OutputFiles : f \in InitialFileSystems("input", "output")}
  /\ temp_dirs = <<>>
  /\ run = NoRun
  /\ imageOps = <<>>
  /\ launches = <<>>
  /\ container = NoContainer
  /\ produced = FALSE
  /\ outcome = Missing
  /\ fh = NoCalls
  /\ rmtrees = <<>>
  /\ stagers = NoStagers
  /\ example = NoExample

\* file_handler.sanitize_filename(filename)
SanitizeFilename ==
  /\ \E filename \in Filenames :
       fh' = [fh EXCEPT !.last = Some([op |-> "sanitize_filename", arg |-> filename,
                                        result |-> sanitize_filename(filename)])]
  /\ UNCHANGED <<cvars, rmtrees, stagers, example, pc, mgr, source, target_output_path, fs, temp_dirs, run,
                 imageOps, launches, container, produced, outcome>>

\* file_handler.prepare_input_file(source_path, target_filename)
PrepareInputFile ==
  /\ Len(fh.staged) < MaxStagings
  /\ \E call \in StagingCalls, copy_ok \in BOOLEAN :
       LET from == call[1]
           staging == prepare_input_file(fs, mgr.input_dir, from, call[2], copy_ok)
       IN /\ fs' = staging.fs
          /\ fh' = IF staging.exc = "none"
                   THEN [fh EXCEPT !.staged = Append(@, [name |-> staging.name,
                                                         size |-> from.size])]
                   ELSE [fh EXCEPT !.last = Some([op |-> "prepare_input_file",
                                                  arg |-> from.name,
                                                  result |-> staging.exc])]
  /\ UNCHANGED <<cvars, rmtrees, stagers, example, pc, mgr, source, target_output_path, temp_dirs, run,
                 imageOps, launches, container, produced, outcome>>

\* file_handler.verify_output_file(output_path, expected_format)
VerifyOutputFile ==
  /\ \E n \in {e.name : e \in {x \in fs : x.dir = mgr.output_dir}} \cup {<<"n", "o">> \o Ext_so},
        expected_format \in OutputFormat, read_ok \in BOOLEAN :
       \* a failure to read is a choice only where the file is read
       /\ ~read_ok => verify_output_file(fs, mgr.output_dir, n, Some(expected_format), FALSE)
                        # verify_output_file(fs, mgr.output_dir, n, Some(expected_format), TRUE)
       /\ fh' = [fh EXCEPT !.last =
                Some([op |-> "verify_output_file", arg |-> n,
                      expected_format |-> expected_format, read_ok |-> read_ok,
                      result |-> verify_output_file(fs, mgr.output_dir, n,
                                                    Some(expected_format), read_ok)])]
  /\ UNCHANGED <<cvars, rmtrees, stagers, example, pc, mgr, source, target_output_path, fs, temp_dirs, run,
                 imageOps, launches, container, produced, outcome>>

FilesNext == SanitizeFilename \/ PrepareInputFile \/ VerifyOutputFile

SpecFiles == FilesInit /\ [][FilesNext]_vars

(***************************************************************************)
(* create_volume_mappings, called on a SecureFileHandler of its own.       *)
(***************************************************************************)
\* SecureFileHandler.create_volume_mappings(input_file, output_file,
\* config_data): [exc, fs, temp_dirs, rmtrees, value], value the pair
\* returned.  The return statement is inside the `with` block of line 244,
\* so the finally clause of temporary_directory runs before the caller has
\* the value.  prep is how far the preparation gets: mkdtemp fails, writing
\* the config file fails, or both go through.
create_volume_mappings(files, dirs, input_file, output_file, config_data, prep, rmtree_ok) ==
  LET temp_dir == "/tmp/config_0"
      fsTemp == files \cup {Dir(temp_dir, <<>>)}
      fsConfig == fsTemp \cup {File(temp_dir, N_compile_config, 1)}
      Leaving(c, exc, value) ==
        [exc |-> IF c.exc # "none" THEN c.exc ELSE exc, fs |-> c.fs,
         temp_dirs |-> c.temp_dirs, rmtrees |-> c.rmtrees, value |-> value]
  IN CASE prep = "mkdtemp" ->
            [exc |-> "OSError", fs |-> files, temp_dirs |-> dirs, rmtrees |-> <<>>,
             value |-> None]
       [] prep = "write" ->
            Leaving(temporary_directory_exit(fsTemp, Append(dirs, temp_dir), temp_dir,
                                             rmtree_ok, "exception"),
                    "OSError", None)
       [] OTHER ->
            Leaving(temporary_directory_exit(fsConfig, Append(dirs, temp_dir), temp_dir,
                                             rmtree_ok, "return"),
                    "none",
                    Some([volumes |-> Volumes(input_file.dir, output_file.dir, temp_dir),
                          config_file |-> [dir |-> temp_dir, name |-> N_compile_config],
                          docker_config |->
                            DockerConfig(config_data, input_file.name, output_file.name)]))

\* the paths create_volume_mappings is called with
MappedInputs ==
  {[dir |-> "input", name |-> n] : n \in {N_m_mlir, <<"m", "_", "1">> \o Ext_mlir}}
MappedOutputs ==
  {[dir |-> "output", name |-> N_m_vmfb], [dir |-> "dist", name |-> <<"m">> \o Ext_so]}

\* volumes, config_file = file_handler.create_volume_mappings(input_file,
\* output_file, config_data)
CreateVolumeMappings ==
  /\ fh.last = Missing
  /\ \E input_file \in MappedInputs, output_file \in MappedOutputs,
        config_data \in RunRequests, prep \in {"ok", "mkdtemp", "write"},
        rmtree_ok \in BOOLEAN :
       LET call == create_volume_mappings(fs, temp_dirs, input_file, output_file,
                                          config_data, prep, rmtree_ok)
       IN \* a failure of rmtree is a choice only where a directory was made
          /\ prep = "mkdtemp" => rmtree_ok
          /\ fs' = call.fs
          /\ temp_dirs' = call.temp_dirs
          /\ rmtrees' = rmtrees \o call.rmtrees
          /\ fh' = [fh EXCEPT !.last = Some([op |-> "create_volume_mappings",
                                             arg |-> <<input_file, output_file, config_data>>,
                                             exc |-> call.exc,
                                             result |-> call.value])]
  /\ UNCHANGED <<cvars, stagers, example, pc, mgr, source, target_output_path, run,
                 imageOps, launches, container, produced, outcome>>

SpecVolumes == FilesInit /\ [][CreateVolumeMappings]_vars

(***************************************************************************)
(* Two compilations staging their inputs at once on the same staging       *)
(* directory.  prepare_input_file holds no lock: the existence checks of   *)
(* its collision loop and the copy are separate system calls, and the      *)
(* calls of the two compilations interleave at each of them.  stagers      *)
(* holds the position and the locals of each call and, in order, when      *)
(* each call left the loop and when it copied.                             *)
(***************************************************************************)
Stagers == {1, 2}

\* the arguments of the two calls: <<source, target_filename>> each
ConcurrentStagings ==
  { << <<[GoodSource EXCEPT !.size = 21], None>>, <<[GoodSource EXCEPT !.size = 22], None>> >>,
    << <<[GoodSource EXCEPT !.size = 21], None>>,
       <<[GoodSource EXCEPT !.size = 22, !.name = <<"m", "_", "1">> \o Ext_mlir], None>> >>,
    << <<[GoodSource EXCEPT !.size = 21], Some(<<"m">>)>>,
       <<[GoodSource EXCEPT !.size = 22, !.name = <<"n">> \o Ext_mlir], None>> >>,
    << <<[GoodSource EXCEPT !.size = 21], None>>,
       <<[GoodSource EXCEPT !.size = 22, !.name = <<"m">> \o Ext_txt], None>> >> }

StagerAt(call) ==
  [pc |-> "start", source |-> call[1], target_filename |-> call[2],
   original_target |-> <<>>, target_path |-> <<>>, counter |-> 1]

StagingInit ==
  /\ req = BaseRequest
  /\ schema = EmptySchema
  /\ cpc = "off"
  /\ vres = Pending
  /\ n1 = PendingN
  /\ vn1 = Pending
  /\ n2 = PendingN
  /\ sres = Pending
  /\ listsetMemo = {}
  /\ pc = "off"
  /\ mgr = [entry |-> "api", verbose |-> FALSE, debug |-> FALSE,
            input_dir |-> "input", output_dir |-> "output"]
  /\ source = GoodSource
  /\ target_output_path = None
  /\ fs \in InitialFileSystems("input", "output")
  /\ temp_dirs = <<>>
  /\ run = NoRun
  /\ imageOps = <<>>
  /\ launches = <<>>
  /\ container = NoContainer
  /\ produced = FALSE
  /\ outcome = Missing
  /\ fh = NoCalls
  /\ rmtrees = <<>>
  /\ example = NoExample
  /\ \E calls \in ConcurrentStagings :
       stagers = [calls |-> [p \in Stagers |-> StagerAt(calls[p])], events |-> <<>>]

\* one test of `while target_path.exists()` and, where it holds, the body
\* of the loop (lines 112-116)
CollisionStep(files, d, call) ==
  IF ~Exists(files, d, call.target_path)
  THEN [call EXCEPT !.pc = "chosen"]
  ELSE [call EXCEPT !.target_path = PathStem(call.original_target) \o <<"_">>
                                      \o IntToChars(call.counter)
                                      \o PathSuffix(call.original_target),
                    !.counter = @ + 1]

\* prepare_input_file up to the loop: validation and the target name
\* (lines 95-111)
StagerBegin(p) ==
  LET call == stagers.calls[p]
      target_name ==
        IF IsSome(call.target_filename) /\ call.target_filename.v # <<>>
        THEN WithMlirExtension(sanitize_filename(call.target_filename.v))
        ELSE sanitize_filename(call.source.name)
  IN /\ call.pc = "start"
     /\ stagers' =
          [stagers EXCEPT !.calls[p] =
             IF validate_input_file(call.source) # ""
             THEN [call EXCEPT !.pc = "ValueError"]
             ELSE [call EXCEPT !.pc = "checking", !.original_target = target_name,
                               !.target_path = target_name]]
     /\ UNCHANGED fs

\* one test of the loop condition by call p
StagerCheck(p) ==
  LET call == stagers.calls[p]
      after == CollisionStep(fs, mgr.input_dir, call)
  IN /\ call.pc = "checking"
     /\ stagers' = [stagers EXCEPT !.calls[p] = after,
                                   !.events = IF after.pc = "chosen"
                                              THEN Append(@, <<p, "chose">>) ELSE @]
     /\ UNCHANGED fs

\* shutil.copy2(source_path, target_path), chmod and the return of call p
StagerCopy(p) ==
  LET call == stagers.calls[p]
  IN /\ call.pc = "chosen"
     /\ fs' = copy2(fs, mgr.input_dir, call.source.size, call.target_path).fs
     /\ stagers' = [stagers EXCEPT !.calls[p].pc = "returned",
                                   !.events = Append(@, <<p, "copied">>)]

StagingNext ==
  /\ \E p \in Stagers : StagerBegin(p) \/ StagerCheck(p) \/ StagerCopy(p)
  /\ UNCHANGED <<cvars, rmtrees, example, pc, mgr, source, target_output_path, temp_dirs,
                 run, imageOps, launches, container, produced, outcome, fh>>

SpecStaging == StagingInit /\ [][StagingNext]_vars

(***************************************************************************)
(* The validation rules, stated on the request as validation reads it      *)
(* (an omitted field at its default).                                      *)
(***************************************************************************)
Effective(o, default) == IF IsSome(o) THEN o.v ELSE default

ViolatesPathShape(r) ==
  \/ IsSome(r.input_file) /\ FieldInputFile(r.input_file).errs # <<>>
  \/ IsSome(r.output_file) /\ FieldOutputFile(r.output_file).errs # <<>>

ViolatesFormatConsistency(r) ==
  /\ r.output_file.k # "none"
  /\ r.output_format.k # "none"
  /\ Effective(r.output_format, "vmfb") \in OutputFormat
  /\ ~EndsWith(Effective(r.output_file, S_output \o S_model \o Ext_vmfb),
               FormatExt(Effective(r.output_format, "vmfb")))

ViolatesFeatureRule(r) ==
  /\ Effective(r.target, "cuda") = "cuda"
  /\ IsSome(r.target_features)
  /\ \E i \in 1..Len(r.target_features.v) : ~StartsWith(r.target_features.v[i], S_sm_)

\* C7: validate_config returns a pair (ok, errors) for every request and
\* raises no exception; ok is false exactly when errors is non-empty.
C7_ValidateNeverRaises ==
  cpc # "start" => /\ vres.exc = "none"
                   /\ (vres.ok <=> vres.errors = <<>>)

\* C8: when a request violates several validation rules at once, the error
\* list validate_config returns has an entry for every violated rule.
C8_AllViolationsReported ==
  (cpc # "start" /\ vres.exc = "none") =>
     /\ ViolatesPathShape(req) =>
          (InSeq("input_file", vres.errors) \/ InSeq("output_file", vres.errors))
     /\ ViolatesFormatConsistency(req) => InSeq("output_format_consistency", vres.errors)
     /\ ViolatesFeatureRule(req) => InSeq("target_features_consistency", vres.errors)

\* C9: normalize_config(normalize_config(x)) equals normalize_config(x) field
\* by field, the order of target_features included.
C9_NormalizeIdempotent ==
  cpc = "renormalized" => (n2.exc = "none" /\ n2.val = n1.val)

\* C10: for every request x that validate_config accepts,
\* validate_config(normalize_config(x)) returns ok with an empty error list.
C10_NormalizePreservesValidity ==
  (vres.exc = "none" /\ vres.ok) =>
     /\ cpc \in {"normalized", "revalidated", "renormalized"} => n1.exc = "none"
     /\ cpc \in {"revalidated", "renormalized"} =>
          (vn1.exc = "none" /\ vn1.ok /\ vn1.errors = <<>>)

\* C11: for every target and every output format f of vmfb, so, dylib, a
\* request whose output file (the default when omitted) does not end in "."
\* followed by f is never accepted, by the model-based validate_config and by
\* the schema-based one alike; when either returns, it returns not ok with a
\* non-empty error list.
C11_FormatMismatchRejected ==
  ViolatesFormatConsistency(req) =>
     /\ cpc # "start" =>
          /\ ~(vres.exc = "none" /\ vres.ok)
          /\ vres.exc = "none" => vres.errors # <<>>
     /\ sres # Pending =>
          /\ ~(sres.exc = "none" /\ sres.ok)
          /\ sres.exc = "none" => sres.errors # <<>>

C11_Witness ==
  /\ cpc # "start"
  /\ sres # Pending
  /\ req.target = Some("metal")
  /\ req.output_format = Some("so")
  /\ req.output_file = Some(S_output \o <<"m">> \o Ext_vmfb)
  /\ vres.errors = <<"output_format_consistency">>
  /\ sres.errors = <<"output_format_consistency">>

\* C12: for target cuda, validate_config accepts an otherwise well-formed
\* request if and only if every entry of target_features is "sm_" followed
\* by one or more decimal digits; a list with an entry that lacks the prefix
\* is rejected with the feature-prefix error.  "Otherwise well-formed" is
\* taken on the requests of FeatureRequests, whose other fields are valid,
\* and, for the acceptance, without a sub-record whose compute capabilities
\* would have to be among the features.
C12_CudaFeatureRule ==
  (/\ cpc # "start"
   /\ req \in FeatureRequests
   /\ Effective(req.target, "cuda") = "cuda"
   /\ IsSome(req.target_features)) =>
     LET conform == validate_target_features_for_target("cuda", req.target_features.v).ok
         accepted == vres.exc = "none" /\ vres.ok
     IN /\ accepted => conform
        /\ (conform /\ req.target_specific \in {Missing, Some(NoSubs)}) => accepted
        /\ ViolatesFeatureRule(req) => vres.errors = <<"target_features_consistency">>

\* the x86 vector-extension identifiers
X86Extensions ==
  { <<"s", "s", "e">>, <<"s", "s", "e", "2">>, <<"s", "s", "e", "3">>,
    <<"s", "s", "s", "e", "3">>, <<"s", "s", "e", "4", ".", "1">>,
    <<"s", "s", "e", "4", ".", "2">>, <<"a", "v", "x">>, <<"a", "v", "x", "2">>,
    <<"a", "v", "x", "5", "1", "2">> }

\* a cpu request whose cpu sub-record names arm64 and lists an x86 extension
Arm64WithX86(r) ==
  /\ r.target = Some("cpu")
  /\ IsSome(r.target_specific)
  /\ IsSome(r.target_specific.v.cpu)
  /\ r.target_specific.v.cpu.v.target_cpu = Some(<<"a", "r", "m", "6", "4">>)
  /\ IsSome(r.target_specific.v.cpu.v.vector_extensions)
  /\ SeqToSet(r.target_specific.v.cpu.v.vector_extensions.v) \cap X86Extensions # {}

\* C14: a cpu request whose cpu sub-record has target_cpu arm64 and an x86
\* identifier in its vector-extension list is rejected by validate_config, in
\* the model-based mode and in the schema-based mode.
C14_Arm64RejectsX86 ==
  Arm64WithX86(req) =>
     /\ cpc # "start" => (vres.exc = "none" /\ ~vres.ok)
     /\ sres # Pending => (sres.exc = "none" /\ ~sres.ok)

\* the request without the sub-records of the targets it does not select
WithoutOtherSubs(r) ==
  IF ~IsSome(r.target_specific) THEN r
  ELSE [r EXCEPT !.target_specific =
          Some([t \in DOMAIN r.target_specific.v |->
                  IF t = Effective(r.target, "cuda") THEN r.target_specific.v[t]
                  ELSE Missing])]

\* C15: a sub-record of a target other than the selected one is inert:
\* validate_config gives the request the verdict it gives the request without
\* that sub-record, whatever the sub-record holds.
C15_NonSelectedSubRecordInert ==
  cpc # "start" =>
     /\ vres.exc = validate_config(WithoutOtherSubs(req)).exc
     /\ vres.ok = validate_config(WithoutOtherSubs(req)).ok

\* the characters in code-point order, and the order of str it gives
CodePointOrder ==
  <<"-", ".">> \o <<"0", "1", "2", "3", "4", "5", "6", "7", "8", "9">> \o UpperLetters
  \o <<"_">> \o LowerLetters \o <<"é">>
CodePoint(c) == CHOOSE i \in 1..Len(CodePointOrder) : CodePointOrder[i] = c
RECURSIVE StrLess(_, _)
StrLess(a, b) ==
  IF Len(b) = 0 THEN FALSE
  ELSE IF Len(a) = 0 THEN TRUE
  ELSE IF a[1] = b[1] THEN StrLess(Tail(a), Tail(b))
  ELSE CodePoint(a[1]) < CodePoint(b[1])

\* C16: after normalize_config, target_features holds each distinct feature
\* of the input once, in ascending order; the cpu request with features
\* avx2, avx2, sse2 gets avx2, sse2 and validates.
C16_NormalizedFeaturesSorted ==
  (cpc \in {"normalized", "revalidated", "renormalized"} /\ IsSome(req.target_features)) =>
     /\ n1.exc = "none"
     /\ IsSome(n1.val.target_features)
     /\ SeqToSet(n1.val.target_features.v) = SeqToSet(req.target_features.v)
     /\ \A i \in 1..(Len(n1.val.target_features.v) - 1) :
          StrLess(n1.val.target_features.v[i], n1.val.target_features.v[i + 1])
     /\ req.target_features.v = <<F_avx2, F_avx2, F_sse2>> =>
          /\ n1.val.target_features.v = <<F_avx2, F_sse2>>
          /\ cpc # "normalized" => (vn1.exc = "none" /\ vn1.ok)

(***************************************************************************)
(* The compile pipeline: what is claimed of run_compilation.               *)
(***************************************************************************)
Done == pc = "done"
Launched == launches # <<>>
HasSuccessMarker(log) ==
  \E i \in 1..Len(log) : log[i].rest = <<"S", "U", "C", "C", "E", "S", "S">>
RunImageOps == {i \in 1..Len(imageOps) : imageOps[i].by = "run_compilation"}

\* C1: whenever run_compilation returns success=true, the staged output file
\* is, after the container run, a non-empty regular file whose name ends in
\* the extension of the requested format (and holds at least 4 bytes for
\* vmfb); a SUCCESS line in the container log does not make a run successful
\* whose output fails this verification.
C1_SuccessMeansVerified ==
  (Done /\ outcome.k = "returned" /\ outcome.v.success) =>
     /\ Launched
     /\ IsFile(fs, mgr.output_dir, run.prepared_output)
     /\ Entry(fs, mgr.output_dir, run.prepared_output).size > 0
     /\ EndsWith(run.prepared_output, ExpectedExt(ExpectedFormat(RunConfig)))
     /\ (ExpectedFormat(RunConfig) = Some("vmfb") =>
           Entry(fs, mgr.output_dir, run.prepared_output).size >= 4)

C1_Witness ==
  /\ Done
  /\ outcome.k = "returned"
  /\ outcome.v.success
  /\ produced
  /\ HasSuccessMarker(container.log)

\* C2: when the container ran and wrote no artifact at the reserved output
\* path, run_compilation returns success=false, whatever the output
\* directory held before the run.
C2_NoArtifactMeansFailure ==
  (Done /\ Launched /\ ~produced /\ outcome.k = "returned") => ~outcome.v.success

\* C3: every container launch carries the fixed sandbox posture (user
\* 1000:1000, read-only root, noexec/nosuid size-capped tmpfs at /tmp, 2g of
\* memory, a CPU quota of one core, no network, all capabilities dropped,
\* no-new-privileges) whatever the request and the verbose/debug setting.
C3_FixedSandboxPosture ==
  \A i \in 1..Len(launches) :
     /\ launches[i].user = "1000:1000"
     /\ launches[i].read_only
     /\ launches[i].tmpfs.mount = "/tmp"
     /\ {"noexec", "nosuid", "size=100m"} \subseteq SeqToSet(launches[i].tmpfs.options)
     /\ launches[i].mem_limit = "2g"
     /\ launches[i].cpu_quota = 100000
     /\ launches[i].network_mode = "none"
     /\ launches[i].cap_drop = <<"ALL">>
     /\ launches[i].security_opt = <<"no-new-privileges">>

C3_Witness ==
  /\ Launched
  /\ mgr.debug
  /\ mgr.verbose
  /\ req.target = Some("cuda")

\* C4: every container launch has exactly three volume bindings, the
\* staged-input directory at /input read-only, the output directory at
\* /output read-write and the temporary config directory at /config
\* read-only, for every choice of the staging directories.
C4_ThreeVolumeBindings ==
  \A i \in 1..Len(launches) :
     /\ Cardinality(DOMAIN launches[i].volumes) = 3
     /\ BoundAt(launches[i].volumes, "/input", "ro") = {mgr.input_dir}
     /\ BoundAt(launches[i].volumes, "/output", "rw") = {mgr.output_dir}
     /\ BoundAt(launches[i].volumes, "/config", "ro") = {run.temp_dir}

\* C5: a container is launched only after validate_config accepted the
\* request (in `compile`) and prepare_input_file staged the input; when
\* validate_config does not accept, `compile` ends before run_compilation,
\* and when prepare_input_file rejects the input file run_compilation
\* returns a failure result and has made no image call and no launch.
C5_LaunchOnlyAfterValidationAndStaging ==
  /\ Launched =>
       /\ mgr.entry = "cli" => (vres.exc = "none" /\ vres.ok)
       /\ validate_input_file(source) = ""
       /\ run.staged
       /\ IsFile(fs, mgr.input_dir, run.prepared_input)
  /\ (mgr.entry = "cli" /\ pc # "cli" /\ ~(vres.exc = "none" /\ vres.ok)) =>
       (pc = "exit" /\ outcome = Missing /\ run = NoRun /\ imageOps = <<>> /\ ~Launched)
  /\ (Done /\ validate_input_file(source) # "") =>
       /\ outcome.k = "returned"
       /\ ~outcome.v.success
       /\ RunImageOps = {}
       /\ ~Launched

C5_Witness ==
  /\ Launched
  /\ mgr.entry = "cli"
  /\ vres.ok
  /\ run.staged

\* C6: run_compilation raises nothing: however it ends (staging failure,
\* image unavailable, container failing, undecodable or malformed output,
\* verification failure) it returns a result with a boolean success, and a
\* result with success=false has both an error and logs.
C6_AlwaysReturnsResult ==
  Done =>
     /\ outcome.k = "returned"
     /\ outcome.v.success \in BOOLEAN
     /\ ~outcome.v.success => (IsSome(outcome.v.error) /\ IsSome(outcome.v.logs))

C6_Witness ==
  /\ Done
  /\ Launched
  /\ outcome.k = "returned"
  /\ ~outcome.v.success
  /\ outcome.v.error.v.kind = "File preparation error"

\* C13: every request that passed validation and came to the container
\* launch has target_features that conform to the lexical rule of its target:
\* for cpu every entry is in the CPU whitelist, for vulkan in the SPIR-V
\* version tags, for metal in the Metal version tags.
C13_LaunchedFeaturesConform ==
  (Launched /\ TargetOf(RunConfig) \in {"cpu", "vulkan", "metal"}) =>
     validate_target_features_for_target(TargetOf(RunConfig),
                                         OrEmpty(RunConfig.target_features)).ok

(***************************************************************************)
(* The SecureFileHandler: what is claimed of its operations.               *)
(***************************************************************************)
Called(op) == IsSome(fh.last) /\ fh.last.v.op = op
HasDotDot(s) == \E i \in 1..(Len(s) - 1) : s[i] = "." /\ s[i + 1] = "."

\* C17: for every input string, sanitize_filename returns a name that is not
\* empty, does not start with ".", has at most 100 characters and holds only
\* the letters A-Z and a-z, the digits and ".", "_", "-".
C17_SanitizedNameSafe ==
  Called("sanitize_filename") =>
     /\ fh.last.v.result # <<>>
     /\ fh.last.v.result[1] # "."
     /\ Len(fh.last.v.result) <= 100
     /\ SeqToSet(fh.last.v.result) \subseteq
          SeqToSet(LowerLetters) \cup SeqToSet(UpperLetters) \cup Digits \cup {".", "_", "-"}

\* C18 as claimed: the name sanitize_filename returns holds no "/" and no
\* ".." sequence.
C18_NoTraversalSequence ==
  Called("sanitize_filename") =>
     ("/" \notin SeqToSet(fh.last.v.result) /\ ~HasDotDot(fh.last.v.result))

\* C18 as amended: the name sanitize_filename returns holds no "/" and is
\* neither "." nor ".." (it does not start with "."), so it names an entry
\* of the directory it is joined to; a ".." sequence can stay inside it.
C18_NoSeparatorNoDotName ==
  Called("sanitize_filename") =>
     /\ "/" \notin SeqToSet(fh.last.v.result)
     /\ fh.last.v.result \notin {<<>>, <<".">>, <<".", ".">>}
     /\ fh.last.v.result[1] # "."

C18_Witness ==
  /\ Called("sanitize_filename")
  /\ fh.last.v.arg = <<".", ".", "/", ".", ".", "/", "e", "t", "c", "/",
                       "p", "a", "s", "s", "w", "d">>
  /\ fh.last.v.result = <<"f", "i", "l", "e", "_", ".", ".", ".", ".", "e", "t", "c",
                          "p", "a", "s", "s", "w", "d">>

\* C19: staging never overwrites: every call of prepare_input_file returns a
\* path at which nothing existed before the call, different from the paths
\* of the calls before it, and leaves every file of the file system as it
\* was.
C19_StagingNeverOverwrites ==
  [][fh'.staged # fh.staged =>
       LET new == fh'.staged[Len(fh'.staged)]
       IN /\ ~Exists(fs, mgr.input_dir, new.name)
          /\ IsFile(fs', mgr.input_dir, new.name)
          /\ Entry(fs', mgr.input_dir, new.name).size = new.size
          /\ \A i \in 1..Len(fh.staged) : fh.staged[i].name # new.name
          /\ \A e \in fs : e \in fs']_vars

\* the same sanitized name staged twice next to files of that name
C19_Witness ==
  /\ Len(fh.staged) = 2
  /\ fh.staged[1] = [name |-> <<"m", "_", "2">> \o Ext_mlir, size |-> 12]
  /\ fh.staged[2] = [name |-> <<"m", "_", "3">> \o Ext_mlir, size |-> 13]
  /\ Entry(fs, mgr.input_dir, N_m_mlir).size = 12

\* the cases in which the claim has verify_output_file reject
ClaimedRejection(n, fmt) ==
  \/ ~Exists(fs, mgr.output_dir, n)
  \/ Entry(fs, mgr.output_dir, n).kind # "file"
  \/ Entry(fs, mgr.output_dir, n).size = 0
  \/ ~EndsWith(n, <<".">> \o StrChars(fmt))
  \/ fmt = "vmfb" /\ Entry(fs, mgr.output_dir, n).size < 4

\* C20 as claimed: verify_output_file(path, fmt) rejects exactly when the
\* path does not exist, is not a regular file, has zero length, has a name
\* that does not end in "." fmt or, for vmfb, holds fewer than 4 bytes.
C20_RejectsExactly ==
  Called("verify_output_file") =>
     (~fh.last.v.result.valid
        <=> ClaimedRejection(fh.last.v.arg, fh.last.v.expected_format))

\* C20 as amended: verify_output_file rejects exactly in those cases and, for
\* vmfb, when the file cannot be opened and read.
C20_RejectsExactlyOrUnreadable ==
  Called("verify_output_file") =>
     (~fh.last.v.result.valid
        <=> \/ ClaimedRejection(fh.last.v.arg, fh.last.v.expected_format)
            \/ fh.last.v.expected_format = "vmfb" /\ ~fh.last.v.read_ok)

C20_Witness ==
  /\ Called("verify_output_file")
  /\ fh.last.v.arg = <<"b">> \o Ext_vmfb
  /\ fh.last.v.expected_format = "vmfb"
  /\ fh.last.v.read_ok
  /\ fh.last.v.result.valid

(***************************************************************************)
(* Image resolution, output parsing, the copy to the destination and the   *)
(* temporary directory of run_compilation: what is claimed of them.        *)
(***************************************************************************)
\* the image calls of one caller, in order
OpsBy(who) == SelectSeq(imageOps, LAMBDA o : o.by = who)

\* the steps of one call of ensure_image_available are in the claimed order:
\* a pull follows a failed get, a build follows a failed pull, and nothing
\* follows a step that succeeded
InResolutionOrder(ops) ==
  \A i \in 1..Len(ops) :
     /\ i = 1 => ops[i].op = "get"
     /\ ops[i].op = "get" => i = 1
     /\ ops[i].op = "pull" => (i > 1 /\ ops[i - 1].op = "get" /\ ops[i - 1].result # "ok")
     /\ ops[i].op = "build" => (i > 1 /\ ops[i - 1].op = "pull" /\ ops[i - 1].result # "ok")
     /\ ops[i].result = "ok" => i = Len(ops)
     /\ ops[i].image = ops[1].image

\* C21: ensure_image_available resolves an image in the order local lookup,
\* registry pull, local build: a pull is attempted only after the lookup
\* failed, a build only after the pull failed, it returns true as soon as one
\* step succeeds, and it returns false when all steps fail, after which the
\* run makes no further image call and no launch.
C21_ImageResolutionOrder ==
  /\ InResolutionOrder(OpsBy("cli"))
  /\ InResolutionOrder(OpsBy("run_compilation"))
  /\ OpsBy("cli") # <<>> =>
       (OpsBy("cli")[Len(OpsBy("cli"))].result = "ok" <=> pc # "exit")
  /\ OpsBy("run_compilation") # <<>> =>
       IF OpsBy("run_compilation")[Len(OpsBy("run_compilation"))].result = "ok"
       THEN pc = "launching" \/ Launched
       ELSE /\ Done
            /\ ~Launched
            /\ outcome.k = "returned"
            /\ ~outcome.v.success
            /\ outcome.v.error.v.kind = "Docker image not available"

C21_Witness ==
  /\ Launched
  /\ Len(OpsBy("run_compilation")) = 3
  /\ OpsBy("run_compilation")[1].result = "ImageNotFound"
  /\ OpsBy("run_compilation")[2].result = "DockerException"
  /\ OpsBy("run_compilation")[3].op = "build"
  /\ OpsBy("run_compilation")[3].result = "ok"

\* the staged output file passes every check of verify_output_file: the
\* answer verify_output_file gave in this run, or, where the run did not come
\* to it, the answer it gives for the file as it is
ArtifactVerifies ==
  IF IsSome(run.output_valid) THEN run.output_valid.v
  ELSE verify_output_file(fs, mgr.output_dir, run.prepared_output,
                          ExpectedFormat(RunConfig), TRUE).valid

\* C22: parsing of the container's output tolerates partial, malformed or
\* adversarial output: when the container returned and the output artifact
\* verifies, run_compilation returns success=true whatever the output held
\* (no marker, a marker with a malformed value, undecodable bytes).
C22_MalformedOutputTolerated ==
  (Done /\ produced /\ ArtifactVerifies) =>
     (outcome.k = "returned" /\ outcome.v.success)

\* the Path of the staged output file
StagedOutput == [dir |-> mgr.output_dir, name |-> run.prepared_output]

\* the step wrote the file at the caller's destination
DestinationWritten ==
  /\ IsSome(target_output_path)
  /\ {e \in fs' : e.dir = target_output_path.v.dir /\ e.name = target_output_path.v.name}
       # {e \in fs : e.dir = target_output_path.v.dir /\ e.name = target_output_path.v.name}

\* C23: when the output verifies and the caller's destination differs from
\* the staged output path, the artifact is copied to the destination only
\* after verification succeeded; a copy that went through makes output_file
\* the destination, and a copy that failed leaves success=true, adds a
\* warning and leaves output_file naming the staged location.
C23_CopyAfterVerification ==
  [][(pc = "ran" /\ pc' = "done") =>
       /\ (target_output_path # Some(StagedOutput) /\ DestinationWritten) =>
             /\ run'.output_valid = Some(TRUE)
             /\ outcome'.v.success
             /\ outcome'.v.output_file = target_output_path
             /\ Entry(fs', target_output_path.v.dir, target_output_path.v.name).size
                  = Entry(fs, mgr.output_dir, run.prepared_output).size
       /\ (outcome'.k = "returned" /\ IsSome(outcome'.v.warning)) =>
             /\ run'.output_valid = Some(TRUE)
             /\ outcome'.v.success
             /\ outcome'.v.output_file = Some(StagedOutput)
             /\ ~DestinationWritten
       /\ (/\ outcome'.k = "returned" /\ outcome'.v.success
           /\ IsSome(target_output_path) /\ target_output_path # Some(StagedOutput)) =>
             \/ IsSome(outcome'.v.warning)
             \/ /\ outcome'.v.output_file = target_output_path
                /\ IsFile(fs', target_output_path.v.dir, target_output_path.v.name)]_vars

\* the copy to a destination that held another file failed
C23_Witness ==
  /\ Done
  /\ outcome.k = "returned"
  /\ outcome.v.success
  /\ IsSome(outcome.v.warning)
  /\ outcome.v.output_file = Some(StagedOutput)
  /\ target_output_path = Some([dir |-> "dist", name |-> N_m_vmfb])
  /\ IsFile(fs, "dist", N_m_vmfb)
  /\ Entry(fs, "dist", N_m_vmfb).size = 5

\* the rmtree calls made on the temporary directory of the run
RunRmtrees == SelectSeq(rmtrees, LAMBDA r : r.dir = run.temp_dir)

\* C24: the temporary directory of run_compilation is released on every exit
\* path: when run_compilation has returned, by a return or after an
\* exception, the removal of the directory it created was attempted, once,
\* and when the removal went through the directory is neither on disk nor in
\* temp_dirs.
C24_TempDirReleasedOnEveryPath ==
  (Done /\ run.temp_dir # "") =>
     /\ Len(RunRmtrees) = 1
     /\ RunRmtrees[1].ok =>
          /\ ~\E e \in fs : e.dir = run.temp_dir
          /\ ~InSeq(run.temp_dir, temp_dirs)

\* the container raised and the directory was removed
C24_Witness ==
  /\ Done
  /\ Launched
  /\ run.temp_dir # ""
  /\ outcome.k = "returned"
  /\ outcome.v.error = Some([kind |-> "File preparation error", text |-> <<>>])
  /\ Len(RunRmtrees) = 1
  /\ RunRmtrees[1].ok
  /\ ~\E e \in fs : e.dir = run.temp_dir

\* the results run_compilation can deliver from this state when every
\* removal of a temporary directory goes through
OutcomesWithCleanup ==
  CASE pc = "ready" ->
         {run_compilation_start(RunConfig, client_ok, copy_ok, prep, TRUE, ens).outcome :
            client_ok \in BOOLEAN, copy_ok \in BOOLEAN, prep \in {"ok", "mkdtemp", "write"},
            ens \in EnsureRuns(get_image_name(TargetOf(RunConfig)))}
    [] pc = "launching" ->
         {run_compilation_except("with", e) : e \in {"ContainerError", "APIError"}}
    [] pc = "ran" ->
         {run_compilation_finish(RunConfig, read_ok, copy_ok).outcome :
            read_ok \in BOOLEAN, copy_ok \in BOOLEAN}
    [] OTHER -> {}

\* C25: cleanup is best-effort: when the removal of the temporary directory
\* fails, cleanup_temporary_directory raises nothing and run_compilation
\* delivers the result (or the failure result of the original exception) it
\* delivers when the removal goes through.
C25_CleanupFailureKeepsResult ==
  [][(pc' = "done" /\ rmtrees' # rmtrees /\ ~rmtrees'[Len(rmtrees')].ok) =>
       /\ outcome'.k = "returned"
       /\ outcome' \in OutcomesWithCleanup]_vars

\* a successful compilation whose temporary directory could not be removed
C25_Witness ==
  /\ Done
  /\ outcome.k = "returned"
  /\ outcome.v.success
  /\ Len(RunRmtrees) = 1
  /\ ~RunRmtrees[1].ok
  /\ \E e \in fs : e.dir = run.temp_dir

\* the name after the mount prefix, or <<"?">> when the path does not
\* start with the prefix
AfterPrefix(path, prefix) ==
  IF StartsWith(path, prefix) THEN SubSeq(path, Len(prefix) + 1, Len(path)) ELSE <<"?">>

\* C26: for every container launch, the configuration document written for
\* the container has input_file '/input/' + a name without directory
\* components that ends in '.mlir', and output_file '/output/' + a name
\* without directory components that ends in '.' + the output_format of the
\* request, whatever the source path and the destination path.
C26_ContainerPathsNormalized ==
  Launched =>
     LET doc == run.docker_config.v
         input_name == AfterPrefix(doc.input_file.v, S_input)
         output_name == AfterPrefix(doc.output_file.v, S_output)
     IN /\ StartsWith(doc.input_file.v, S_input)
        /\ "/" \notin SeqToSet(input_name)
        /\ EndsWith(input_name, Ext_mlir)
        /\ StartsWith(doc.output_file.v, S_output)
        /\ "/" \notin SeqToSet(output_name)
        /\ EndsWith(output_name, ExpectedExt(ExpectedFormat(RunConfig)))

(***************************************************************************)
(* The example requests.                                                   *)
(***************************************************************************)
\* C27: for each of the four targets generate_example_config returns a
\* request with that target which validation accepts: IreeCompilationConfig
\* constructs from it, the cross-field rules and the feature rules of the
\* target find nothing; an unknown target name gives the cuda example.
C27_ExamplesAreValid ==
  IsSome(example) =>
     LET asked == example.v.target
         result == example.v.result
         config == result.val.v
     IN /\ result.exc = "none"
        /\ config.target = Some(IF asked \in CompilationTarget THEN asked ELSE "cuda")
        /\ IreeCompilationConfig(config).exc = "none"
        /\ IreeCompilationConfig(config).errs = <<>>
        /\ validate_config(config) = [exc |-> "none", ok |-> TRUE, errors |-> <<>>]
        /\ validate_target_features_for_target(config.target.v,
                                               OrEmpty(config.target_features)).ok
        /\ req = config
        /\ cpc # "start" => vres.exc = "none" /\ vres.ok

\* the example asked for an unknown target was generated and validated
C27_Witness ==
  /\ IsSome(example)
  /\ example.v.target \notin CompilationTarget
  /\ req.target = Some("cuda")
  /\ cpc = "validated"
  /\ vres.ok

(***************************************************************************)
(* Concurrent staging.                                                     *)
(***************************************************************************)
\* when call p left the collision loop, and when it copied
EventAt(p, what) ==
  CHOOSE i \in 1..Len(stagers.events) : stagers.events[i] = <<p, what>>

BothReturned == \A p \in Stagers : stagers.calls[p].pc = "returned"

\* both calls passed the existence check before either copied
Interleaved ==
  /\ EventAt(1, "chose") < EventAt(2, "copied")
  /\ EventAt(2, "chose") < EventAt(1, "copied")

LastCopier == IF EventAt(1, "copied") < EventAt(2, "copied") THEN 2 ELSE 1
FirstCopier == 3 - LastCopier

\* C28: collision avoidance by suffix is safe only without interleaving.
\* Two concurrent calls of prepare_input_file on the same staging directory
\* get the same target path only if both passed the existence check before
\* either copied; with the same sanitized name that interleaving always
\* gives both the same path, and then the file staged first is overwritten
\* by the one staged last.  Calls that do not interleave so get two paths
\* and two files.
C28_SuffixSafeOnlyWithoutInterleaving ==
  BothReturned =>
     LET a == stagers.calls[1]
         b == stagers.calls[2]
         first == stagers.calls[FirstCopier]
         last == stagers.calls[LastCopier]
     IN /\ a.target_path = b.target_path => Interleaved
        /\ Interleaved /\ a.original_target = b.original_target
             => a.target_path = b.target_path
        /\ a.target_path = b.target_path
             => /\ Entry(fs, mgr.input_dir, a.target_path).size = last.source.size
                /\ ~\E e \in fs : e.dir = mgr.input_dir /\ e.size = first.source.size
        /\ a.target_path # b.target_path
             => /\ Entry(fs, mgr.input_dir, a.target_path).size = a.source.size
                /\ Entry(fs, mgr.input_dir, b.target_path).size = b.source.size

\* two calls with the same sanitized name found m.mlir taken, both chose
\* m_1.mlir before either copied, and the first copy was overwritten
C28_Witness ==
  /\ BothReturned
  /\ Interleaved
  /\ stagers.calls[1].original_target = stagers.calls[2].original_target
  /\ stagers.calls[1].target_path = stagers.calls[2].target_path
  /\ stagers.calls[1].counter > 1
  /\ Cardinality({e \in fs : e.dir = mgr.input_dir
                              /\ e.size \in {stagers.calls[p].source.size : p \in Stagers}}) = 1

(***************************************************************************)
(* The mapping returned by create_volume_mappings.                         *)
(***************************************************************************)
MappingReturned ==
  /\ Called("create_volume_mappings")
  /\ fh.last.v.exc = "none"

\* C29: when create_volume_mappings has returned, the config file it
\* returned and the directory it bound to /config still exist, and the
\* temporary directory has not been released.
C29_ReturnedMappingUsable ==
  MappingReturned =>
     LET config_file == fh.last.v.result.v.config_file
     IN /\ IsFile(fs, config_file.dir, config_file.name)
        /\ Dir(config_file.dir, <<>>) \in fs
        /\ fh.last.v.result.v.volumes[config_file.dir].bind = "/config"
        /\ InSeq(config_file.dir, temp_dirs)

(***************************************************************************)
(* The result of run_compilation.                                          *)
(***************************************************************************)
\* C30: a result returned by run_compilation is never both successful and
\* in error: with success=true it has no 'error' entry, whatever the
\* container printed.
C30_SuccessHasNoError ==
  (Done /\ outcome.k = "returned" /\ outcome.v.success) => outcome.v.error = Missing

====
